---- MODULE Spec2Model ----
(***************************************************************************)
(* Model of the project/board backend: the column/card normaliser, the     *)
(* column endpoints, the project create/update endpoints and the           *)
(* membership/invitation endpoints of src/routes/projects.js, over one     *)
(* persisted Project document and the User directory.                      *)
(*                                                                         *)
(* JavaScript strings are sequences of one-character strings, so that      *)
(* trim() and toLowerCase() are computed, not assumed.  A string field     *)
(* that is undefined, null or "" is the empty sequence wherever the code   *)
(* only tests it with ||; where the code tests typeof, the value carries   *)
(* a tag.  A JavaScript number x is the integer 2x: the numbers of the     *)
(* model are the multiples of one half, so that an order of 0.5 exists.    *)
(***************************************************************************)
EXTENDS Integers, Sequences, FiniteSets, TLC

VARIABLES
    accounts,   \* User collection: user id -> stored email (<<>>: no such account)
    created,    \* whether the Project document exists
    owner,      \* Project.owner
    columns,    \* Project.columns
    members,    \* Project.members
    invites,    \* Project.invites
    ops,        \* number of requests served on the project so far
    last,       \* the last request and its response
    inflight,   \* the requests between their read and their write
    version,    \* Project.__v, the version key Mongoose keeps for the arrays
    tokens,     \* User.token: user id -> the stored token (NoToken: "")
    passwords,  \* User.passwordHash: user id -> the password (<<>>: "")
    otps,       \* Otp collection: records of email, type, code and expiry
    now,        \* the time, in ticks
    passwordChecked, \* the emails whose password login/send-otp has accepted
    issued,         \* the tokens the verify handlers have issued
    otpSent         \* the emails and types of the OTPs sent and not yet used
                    \* since their last successful login/verify

\* The state of the auth routes besides the User directory.
authVars == <<tokens, passwords, otps, now, passwordChecked, issued, otpSent>>

vars == <<accounts, created, owner, columns, members, invites, ops, last,
          inflight, version, authVars>>

----------------------------------------------------------------------------
(* Bounds of the exploration *)

\* requests served on the project in one behaviour
MaxOps == 4

\* the same for the specifications of the board and of project update, whose
\* requests come from larger sets
MaxBoardOps == 3
MaxMemberOps == 3

----------------------------------------------------------------------------
(* Strings *)

UpperCase == <<"A","B","C","D","E","F","G","H","I","J","K","L","M",
               "N","O","P","Q","R","S","T","U","V","W","X","Y","Z">>
LowerCase == <<"a","b","c","d","e","f","g","h","i","j","k","l","m",
               "n","o","p","q","r","s","t","u","v","w","x","y","z">>
Digits == <<"0","1","2","3","4","5","6","7","8","9">>

IsSpace(c) == c \in {" ", "\t", "\n"}

UpperSet == {UpperCase[i] : i \in 1..26}

IsUpper(c) == c \in UpperSet

\* The lower-case letter of each upper-case letter.
LowerOf == [c \in UpperSet |-> LowerCase[CHOOSE i \in 1..26 : UpperCase[i] = c]]

LowerChar(c) == IF IsUpper(c) THEN LowerOf[c] ELSE c

\* String.prototype.toLowerCase
ToLowerCase(s) == [i \in 1..Len(s) |-> LowerChar(s[i])]

RECURSIVE TrimStart(_)
TrimStart(s) ==
    IF s # <<>> /\ IsSpace(Head(s)) THEN TrimStart(Tail(s)) ELSE s

RECURSIVE TrimEnd(_)
TrimEnd(s) ==
    IF s # <<>> /\ IsSpace(s[Len(s)]) THEN TrimEnd(SubSeq(s, 1, Len(s) - 1)) ELSE s

\* String.prototype.trim
Trim(s) == TrimEnd(TrimStart(s))

\* String(n) for a natural number n
RECURSIVE NumberToString(_)
NumberToString(n) ==
    IF n < 10 THEN <<Digits[n + 1]>>
    ELSE NumberToString(n \div 10) \o <<Digits[(n % 10) + 1]>>

\* Collation weight of a character: white space, then digits, then letters
\* (letters of either case share a weight).
LetterWeight == [c \in {LowerCase[i] : i \in 1..26} |->
                    10 + (CHOOSE i \in 1..26 : LowerCase[i] = c)]
DigitWeight == [c \in {Digits[i] : i \in 1..10} |->
                    CHOOSE i \in 1..10 : Digits[i] = c]

CharWeight(c) ==
    IF IsSpace(c) THEN 0
    ELSE IF c \in DOMAIN DigitWeight THEN DigitWeight[c]
    ELSE IF LowerChar(c) \in DOMAIN LetterWeight THEN LetterWeight[LowerChar(c)]
    ELSE 40

CaseWeight(c) == IF IsUpper(c) THEN 1 ELSE 0

\* Level of a collation comparison: primary (letters) or tertiary (case)
Weight(level, c) == IF level = "primary" THEN CharWeight(c) ELSE CaseWeight(c)

RECURSIVE CompareBy(_, _, _)
CompareBy(level, a, b) ==
    IF a = <<>> /\ b = <<>> THEN 0
    ELSE IF a = <<>> THEN -1
    ELSE IF b = <<>> THEN 1
    ELSE IF Weight(level, Head(a)) < Weight(level, Head(b)) THEN -1
    ELSE IF Weight(level, Head(a)) > Weight(level, Head(b)) THEN 1
    ELSE CompareBy(level, Tail(a), Tail(b))

\* String.prototype.localeCompare: letters first, case only to break a tie
\* (lower case before upper case).
LocaleCompare(a, b) ==
    LET primary == CompareBy("primary", a, b)
    IN  IF primary # 0 THEN primary ELSE CompareBy("case", a, b)

----------------------------------------------------------------------------
(* Literals of the source *)

ToDo       == <<"T","o"," ","D","o">>
InProgress == <<"I","n"," ","P","r","o","g","r","e","s","s">>
InReview   == <<"I","n"," ","R","e","v","i","e","w">>
Done       == <<"D","o","n","e">>
Task1      == <<"T","a","s","k"," ","1">>
Scrum1     == <<"S","c","r","u","m"," ","1">>
DefaultDescription == <<"S","c","r","u","m"," ","1"," ","d","e","f","a","u","l","t",
                        " ","w","o","r","k"," ","i","t","e","m">>
ColumnPrefix == <<"C","o","l","u","m","n"," ">>

DEFAULT_BOARD_COLUMNS ==
    << [name |-> ToDo,       defaultCard |-> TRUE],
       [name |-> InProgress, defaultCard |-> FALSE],
       [name |-> InReview,   defaultCard |-> FALSE],
       [name |-> Done,       defaultCard |-> FALSE] >>

\* The user id that stands for null / no user.
NoUser == "null"

\* The two values of a card's dueDate the model tells apart: the time of the
\* request (new Date()) and a date the client gave.
Now == "now"

----------------------------------------------------------------------------
(* Numbers and loosely typed request values *)

\* The number n, and n + 0.5.
Num(n) == 2 * n
Half(n) == 2 * n + 1

\* Math.floor, as an index (an integer of the model, not a number).
Floor(x) == x \div 2

\* A request's order field: undefined, null, a number, or a string that is
\* numeric or not.
OrderUndefined == [t |-> "undefined", n |-> 0, numeric |-> FALSE]
OrderNull      == [t |-> "null",      n |-> 0, numeric |-> FALSE]
OrderNumber(x) == [t |-> "number",    n |-> x, numeric |-> TRUE]
OrderString(x) == [t |-> "string",    n |-> x, numeric |-> TRUE]
OrderText      == [t |-> "string",    n |-> 0, numeric |-> FALSE]

\* Number(order)
ToNumber(o) ==
    CASE o.t = "undefined" -> [nan |-> TRUE,  n |-> 0]
      [] o.t = "null"      -> [nan |-> FALSE, n |-> 0]
      [] o.t = "number"    -> [nan |-> FALSE, n |-> o.n]
      [] OTHER             -> [nan |-> ~o.numeric, n |-> IF o.numeric THEN o.n ELSE 0]

\* A request's cards field.
CardsUndefined == [t |-> "undefined", v |-> <<>>]
CardsNull      == [t |-> "null",      v |-> <<>>]
CardsArray(cs) == [t |-> "array",     v |-> cs]
CardsOther     == [t |-> "object",    v |-> <<>>]

IsArray(c) == c.t = "array"

\* A request's name field where the code asks for its type.
NameUndefined == [t |-> "undefined", s |-> <<>>]
NameString(s) == [t |-> "string",    s |-> s]

\* A persisted column as the loosely typed object the normaliser reads.
Loose(col) ==
    [name |-> col.name, order |-> OrderNumber(col.order),
     cards |-> CardsArray(col.cards), defaultCard |-> "absent"]

----------------------------------------------------------------------------
(* Column/card normaliser *)

\* createDefaultCards that does not look at the defaultCard field.
createDefaultCardsAlways(columnConfig) ==
    LET columnName == IF columnConfig.name # <<>> THEN columnConfig.name ELSE ToDo
    IN  << [title |-> Task1, description |-> DefaultDescription,
            status |-> columnName, assignee |-> NoUser, dueDate |-> Now] >>

createDefaultCards(columnConfig) ==
    IF ~columnConfig.defaultCard
    THEN <<>>
    ELSE LET columnName == IF columnConfig.name # <<>> THEN columnConfig.name ELSE ToDo
         IN  << [title |-> Task1, description |-> DefaultDescription,
                 status |-> columnName, assignee |-> NoUser, dueDate |-> Now] >>

\* One client card made canonical (the map callback of normalizeColumns).
prepareCard(card, columnName) ==
    [title       |-> IF card.title # <<>> THEN card.title ELSE Scrum1,
     description |-> card.description,
     status      |-> IF card.status # <<>> THEN card.status ELSE columnName,
     assignee    |-> card.assignee,
     dueDate     |-> IF card.dueDate # "" THEN card.dueDate ELSE Now]

\* One column made canonical (the outer map callback of normalizeColumns);
\* index is 0-based as in the source.
normalizeColumn(col, index, enforceDefaultCard) ==
    LET hasFallback == index + 1 <= Len(DEFAULT_BOARD_COLUMNS)
        columnName ==
            IF col.name # <<>> THEN col.name
            ELSE IF hasFallback THEN DEFAULT_BOARD_COLUMNS[index + 1].name
            ELSE ColumnPrefix \o NumberToString(index + 1)
        preparedCards ==
            IF IsArray(col.cards)
            THEN [i \in 1..Len(col.cards.v) |-> prepareCard(col.cards.v[i], columnName)]
            ELSE <<>>
        \* { ...fallbackColumn, ...col, name: columnName }
        mergedDefaultCard ==
            IF col.defaultCard # "absent" THEN col.defaultCard = "true"
            ELSE IF hasFallback THEN DEFAULT_BOARD_COLUMNS[index + 1].defaultCard
            ELSE FALSE
        cards ==
            IF preparedCards # <<>> THEN preparedCards
            ELSE IF enforceDefaultCard
                 THEN createDefaultCards([name |-> columnName,
                                          defaultCard |-> mergedDefaultCard])
                 ELSE <<>>
    IN  [name  |-> columnName,
         order |-> IF col.order.t = "number" THEN col.order.n ELSE Num(index + 1),
         cards |-> cards]

normalizeColumns(cols, enforceDefaultCard) ==
    IF Len(cols) = 0
    THEN [i \in 1..Len(DEFAULT_BOARD_COLUMNS) |->
            [name  |-> DEFAULT_BOARD_COLUMNS[i].name,
             order |-> Num(i),
             cards |-> createDefaultCards(DEFAULT_BOARD_COLUMNS[i])]]
    ELSE [i \in 1..Len(cols) |-> normalizeColumn(cols[i], i - 1, enforceDefaultCard)]

\* Called on persisted columns only, always with fallbackToDefault unset.
normalizeExistingColumns(cols, enforceDefaultCard) ==
    IF Len(cols) = 0
    THEN <<>>
    ELSE normalizeColumns([i \in 1..Len(cols) |-> Loose(cols[i])], enforceDefaultCard)

normalizeColumnName(name) == Trim(name)

\* 0 when no column has the name; else its 1-based position (the source's
\* index + 1).
findColumnIndex(cols, searchName) ==
    LET normalizedSearch == ToLowerCase(normalizeColumnName(searchName))
        hits == {i \in 1..Len(cols) :
                    ToLowerCase(normalizeColumnName(cols[i].name)) = normalizedSearch}
    IN  IF normalizedSearch = <<>> \/ hits = {} THEN 0
        ELSE CHOOSE i \in hits : \A j \in hits : i <= j

\* The comparator of sortColumnsByOrder (a persisted order is always a number).
columnCompare(a, b) ==
    IF a.order = b.order
    THEN LocaleCompare(normalizeColumnName(a.name), normalizeColumnName(b.name))
    ELSE IF a.order < b.order THEN -1 ELSE 1

\* Array.prototype.sort is stable: x goes after every element not greater.
RECURSIVE insertSorted(_, _)
insertSorted(sorted, x) ==
    IF sorted = <<>> THEN <<x>>
    ELSE IF columnCompare(Head(sorted), x) <= 0
         THEN <<Head(sorted)>> \o insertSorted(Tail(sorted), x)
         ELSE <<x>> \o sorted

RECURSIVE sortColumnsByOrder(_)
sortColumnsByOrder(cols) ==
    IF cols = <<>> THEN <<>>
    ELSE insertSorted(sortColumnsByOrder(SubSeq(cols, 1, Len(cols) - 1)),
                      cols[Len(cols)])

\* reindexColumns with the index taken as it comes (0-based).
reindexColumnsZeroBased(cols) ==
    [i \in 1..Len(cols) |-> [cols[i] EXCEPT !.order = Num(i - 1)]]

reindexColumns(cols) ==
    [i \in 1..Len(cols) |-> [cols[i] EXCEPT !.order = Num(i)]]

sanitizeColumns(cols, enforceDefaultCard) ==
    LET preparedColumns == normalizeExistingColumns(cols, enforceDefaultCard)
    IN  IF Len(preparedColumns) = 0 THEN <<>>
        ELSE reindexColumns(sortColumnsByOrder(preparedColumns))

\* columnNameExists that compares the trimmed names as they are written.
columnNameExistsCaseSensitive(cols, name, ignoreIndex) ==
    LET normalized == normalizeColumnName(name)
    IN  /\ normalized # <<>>
        /\ \E i \in 1..Len(cols) :
              /\ i # ignoreIndex
              /\ normalizeColumnName(cols[i].name) = normalized

\* ignoreIndex is a 1-based position, 0 for none.
columnNameExists(cols, name, ignoreIndex) ==
    LET normalized == ToLowerCase(normalizeColumnName(name))
    IN  /\ normalized # <<>>
        /\ \E i \in 1..Len(cols) :
              /\ i # ignoreIndex
              /\ ToLowerCase(normalizeColumnName(cols[i].name)) = normalized

\* Array.prototype.splice(index, 0, x) and splice(index, 1), index 0-based
\* and already clamped by the caller except where noted.
InsertAt(s, index, x) ==
    SubSeq(s, 1, index) \o <<x>> \o SubSeq(s, index + 1, Len(s))

RemoveAt(s, index) ==
    SubSeq(s, 1, index) \o SubSeq(s, index + 2, Len(s))

----------------------------------------------------------------------------
(* The persisted documents and the responses *)

\* The ids the User collection hands out, in the order it hands them out.
\* The emails of the requests to the auth routes.
AuthEmails == {<<"a", "@", "x">>, <<"b", "@", "x">>}

UserOrder == <<"u1", "u2", "u3">>
UserIds == {UserOrder[i] : i \in 1..Len(UserOrder)}

\* The users with an account; only they can hold a session.
Registered == {u \in UserIds : accounts[u] # <<>>}

NoResult ==
    [addedMembers |-> <<>>, invitationsSent |-> <<>>, alreadyMembers |-> <<>>,
     alreadyInvited |-> <<>>, membersRemoved |-> <<>>, invitesCancelled |-> <<>>,
     notFound |-> <<>>, notRemovable |-> <<>>, invalidEmails |-> <<>>]

\* What is recorded of a request: the route, the caller, the status of the
\* response, the normalised emails asked for and the per-email result
\* (invite, revoke), the number of cards the request carried (column create
\* and update) or found in the column it removed (column delete), and
\* whether it carried a cards array, the columns field of the body (project
\* create and update), the :columnName parameter and the name, order, cards
\* and targetColumn fields of the body (column routes), the email field of
\* the body and the entries collected from emails and email (invite,
\* revoke), and, of column create, the
\* insertion index and the response's column (<<>> when undefined); of the
\* auth routes, the otp of the body, the code of the Otp record the handler
\* read, the token of the response and the message of a refusal.
\* user.token of a user without session: "".
NoToken == [userId |-> NoUser, iat |-> 0]

Response(op, caller, status) ==
    [op |-> op, caller |-> caller, status |-> status, emails |-> <<>>,
     result |-> NoResult, nCards |-> 0, hasCards |-> FALSE,
     cols |-> CardsUndefined, columnName |-> <<>>, name |-> NameUndefined,
     order |-> OrderUndefined, cards |-> CardsUndefined, targetColumn |-> <<>>,
     requested |-> <<>>, insertionIndex |-> 0, column |-> <<>>,
     email |-> [t |-> "undefined", s |-> <<>>],
     otp |-> <<>>, code |-> <<>>, token |-> NoToken, message |-> ""]

Range(s) == {s[i] : i \in 1..Len(s)}

isProjectOwner(userId) == owner = userId

\* Project.__v after project.save(): Mongoose increments it when the save
\* pushes to, pulls from or replaces an array, and not when it only sets
\* fields of array elements in place.
versionAfterSave(v, arrayChanged) == IF arrayChanged THEN v + 1 ELSE v

\* isProjectMember that looks at the owner field only.
isProjectMemberOwnerOnly(userId) == owner = userId

isProjectMember(userId) ==
    \/ owner = userId
    \/ \E i \in 1..Len(members) : members[i].user = userId

\* HasAccess that finds the document for every user.
HasAccessAnyone(userId) == created

\* Whether Project.findOne(buildProjectAccessQuery(projectId, userId)) finds
\* the document.
HasAccess(userId) ==
    /\ created
    /\ \/ owner = userId
       \/ \E i \in 1..Len(members) : members[i].user = userId

\* Array.prototype.splice's start index for an array of length len.
SpliceStart(len, start) ==
    IF start < 0
    THEN (IF len + start < 0 THEN 0 ELSE len + start)
    ELSE (IF start > len THEN len ELSE start)

Min(a, b) == IF a < b THEN a ELSE b
Max(a, b) == IF a > b THEN a ELSE b

Served == ops' = ops + 1

----------------------------------------------------------------------------
(* POST /projects *)

CreateProject(caller, name, cols) ==
    /\ ~created
    /\ caller \in Registered
    /\ UNCHANGED <<ops, inflight, version, authVars>>
    /\ IF name = <<>>
       THEN /\ last' = Response("createProject", caller, 400)
            /\ UNCHANGED <<accounts, created, owner, columns, members, invites>>
       ELSE /\ created' = TRUE
            /\ owner' = caller
            /\ members' = << [user |-> caller, role |-> "owner", addedBy |-> caller] >>
            /\ invites' = <<>>
            /\ columns' = normalizeColumns(cols, TRUE)
            /\ last' = [Response("createProject", caller, 201) EXCEPT
                          !.cols = CardsArray(cols)]
            /\ UNCHANGED accounts

----------------------------------------------------------------------------
(* PUT /projects/:projectId *)

\* body.columns is undefined or an array; every other field of the body goes
\* to the update as it is: owner, members and invites are the fields of the
\* document the model follows (set says whether the body carries the field).
UpdateProject(caller, body) ==
    /\ ops < MaxOps
    /\ caller \in Registered
    /\ Served
    /\ UNCHANGED <<inflight, version, authVars>>
    /\ IF HasAccess(caller)
       THEN /\ columns' = IF IsArray(body.columns)
                          THEN normalizeColumns(body.columns.v, FALSE)
                          ELSE columns
            /\ owner' = IF body.owner.set THEN body.owner.v ELSE owner
            /\ members' = IF body.members.set THEN body.members.v ELSE members
            /\ invites' = IF body.invites.set THEN body.invites.v ELSE invites
            /\ last' = [Response("updateProject", caller, 200) EXCEPT
                          !.cols = body.columns]
            /\ UNCHANGED <<accounts, created>>
       ELSE /\ last' = Response("updateProject", caller, 404)
            /\ UNCHANGED <<accounts, created, owner, columns, members, invites>>

----------------------------------------------------------------------------
(* POST /projects/:projectId/columns *)

\* The part of the handler after the project was read: current is the
\* columns array the read returned.  The result is the status, the columns
\* written (none for 409), the insertion index and the response's column,
\* updatedProject.columns[insertionIndex], <<>> when that is undefined.
createColumnOutcome(current, name, order, cards) ==
    LET normalizedName == normalizeColumnName(name)
        cols == sanitizeColumns(current, FALSE)
        preparedColumn ==
            normalizeColumns(<< [name |-> normalizedName, order |-> order,
                                 cards |-> cards, defaultCard |-> "absent"] >>,
                             FALSE)[1]
        parsedOrder == ToNumber(order)
        hasOrder == ~parsedOrder.nan /\ parsedOrder.n > 0
        insertionIndex ==
            IF hasOrder THEN Min(Floor(parsedOrder.n) - 1, Len(cols))
            ELSE Len(cols)
        spliced ==
            InsertAt(cols, SpliceStart(Len(cols), insertionIndex), preparedColumn)
        updatedColumns == reindexColumns(spliced)
    IN  IF columnNameExists(cols, normalizedName, 0)
        THEN [status |-> 409, write |-> FALSE, columns |-> current,
              insertionIndex |-> 0, column |-> <<>>]
        ELSE [status |-> 201, write |-> TRUE, columns |-> updatedColumns,
              insertionIndex |-> insertionIndex,
              column |-> IF insertionIndex \in 0..(Len(updatedColumns) - 1)
                         THEN <<updatedColumns[insertionIndex + 1]>>
                         ELSE <<>>]

\* What every column create records of its request.
CreateColumnResponse(caller, status, name, order, cards) ==
    [Response("createColumn", caller, status) EXCEPT
        !.name = NameString(name), !.order = order, !.cards = cards]

\* findOneAndUpdate that replaces the document by the update.
findOneAndUpdateReplacing(project, updatedColumns) ==
    [project EXCEPT !.columns = updatedColumns, !.members = <<>>, !.invites = <<>>]

\* Project.findOneAndUpdate(query, { columns: updatedColumns }): the fields
\* of the update are set, the others stay.
findOneAndUpdate(project, updatedColumns) ==
    [project EXCEPT !.columns = updatedColumns]

CreateColumn(caller, name, order, cards) ==
    /\ ops < MaxOps
    /\ caller \in Registered
    /\ Served
    /\ UNCHANGED <<accounts, created, inflight, version, authVars>>
    /\ LET normalizedName == normalizeColumnName(name)
           fail(status) ==
               /\ last' = CreateColumnResponse(caller, status, name, order, cards)
               /\ UNCHANGED <<owner, columns, members, invites>>
       IN  IF normalizedName = <<>> THEN fail(400)
           ELSE IF cards.t # "undefined" /\ ~IsArray(cards) THEN fail(400)
           ELSE IF ~HasAccess(caller) THEN fail(404)
           ELSE \E outcome \in {createColumnOutcome(columns, name, order, cards)} :
                IF ~outcome.write THEN fail(outcome.status)
                ELSE \E updatedProject \in
                         {findOneAndUpdate([owner |-> owner, columns |-> columns,
                                            members |-> members, invites |-> invites],
                                           outcome.columns)} :
                     /\ owner' = updatedProject.owner
                     /\ columns' = updatedProject.columns
                     /\ members' = updatedProject.members
                     /\ invites' = updatedProject.invites
                     /\ last' = [CreateColumnResponse(caller, 201, name, order, cards)
                                   EXCEPT
                                   !.nCards = Len(cards.v), !.hasCards = IsArray(cards),
                                   !.insertionIndex = outcome.insertionIndex,
                                   !.column = outcome.column]

----------------------------------------------------------------------------
(* PUT /projects/:projectId/columns/:columnName *)

\* renameColumn that leaves the cards as they are.
renameColumnKeepStatus(column, newName) == [column EXCEPT !.name = newName]

\* The column after the rename step and after the replace-cards step.
renameColumn(column, newName) ==
    [column EXCEPT
        !.name = newName,
        !.cards = [i \in 1..Len(column.cards) |->
                      [column.cards[i] EXCEPT !.status = newName]]]

\* replaceCards that keeps the former cards in front of the new ones.
replaceCardsMerging(column, cards) ==
    [column EXCEPT
        !.cards = column.cards \o
                  normalizeColumns(<< [Loose(column) EXCEPT !.cards = cards] >>,
                                   FALSE)[1].cards]

replaceCards(column, cards) ==
    [column EXCEPT
        !.cards = normalizeColumns(<< [Loose(column) EXCEPT !.cards = cards] >>,
                                   FALSE)[1].cards]

\* The reorder step: cols with the column at position columnIndex (1-based)
\* moved to the place the parsed order asks for.
\* moveColumn that puts the column at the end whatever the order.
moveColumnToEnd(cols, columnIndex, parsedOrder) ==
    Append(RemoveAt(cols, columnIndex - 1), cols[columnIndex])

moveColumn(cols, columnIndex, parsedOrder) ==
    LET movedColumn == cols[columnIndex]
        nextColumns == RemoveAt(cols, columnIndex - 1)
        targetIndex == Min(Max(Floor(parsedOrder) - 1, 0), Len(nextColumns))
    IN  InsertAt(nextColumns, targetIndex, movedColumn)

\* returnWithoutSave that stores the handler's working copy.
returnSavingWorkingCopy(stored, working) == working

\* What the project holds after a handler returns before its write: the
\* stored columns, the working copy being dropped.
returnWithoutSave(stored, working) == stored

\* The part of the handler after the project was read: current is the
\* columns array the read returned.  The result is the status, whether the
\* handler goes on to write, and the columns to write.
updateColumnOutcome(current, columnName, name, order, cards) ==
    LET hasOrder == order.t \notin {"undefined", "null"}
        cols == sanitizeColumns(current, FALSE)
        columnIndex == findColumnIndex(cols, columnName)
        newName == normalizeColumnName(name.s)
        renamed ==
            IF name.t = "string"
            THEN [cols EXCEPT ![columnIndex] = renameColumn(cols[columnIndex], newName)]
            ELSE cols
        replaced ==
            IF IsArray(cards)
            THEN [renamed EXCEPT ![columnIndex] = replaceCards(renamed[columnIndex], cards)]
            ELSE renamed
        parsedOrder == ToNumber(order)
        moved ==
            IF hasOrder THEN moveColumn(replaced, columnIndex, parsedOrder.n)
            ELSE replaced
        fail(status) == [status |-> status, write |-> FALSE, columns |-> current]
    IN  IF columnIndex = 0 THEN fail(404)
        ELSE IF name.t = "string" /\ newName = <<>> THEN fail(400)
        ELSE IF name.t = "string" /\ columnNameExists(cols, newName, columnIndex)
             THEN fail(409)
        ELSE IF hasOrder /\ parsedOrder.nan
             THEN [status |-> 400, write |-> FALSE,
                   columns |-> returnWithoutSave(current, replaced)]
        ELSE [status |-> 200, write |-> TRUE, columns |-> reindexColumns(moved)]

\* Whether the body of a column update is refused before the project is
\* read.
updateColumnRefused(name, order, cards) ==
    LET hasUpdates ==
            \/ name.t = "string"
            \/ order.t \notin {"undefined", "null"}
            \/ IsArray(cards)
    IN  \/ ~hasUpdates
        \/ cards.t \notin {"undefined", "null"} /\ ~IsArray(cards)

\* What every column update records of its request.
UpdateColumnResponse(caller, status, columnName, name, order, cards) ==
    [Response("updateColumn", caller, status) EXCEPT
        !.nCards = IF status = 200 THEN Len(cards.v) ELSE 0,
        !.hasCards = IsArray(cards),
        !.columnName = columnName, !.name = name,
        !.order = order, !.cards = cards]

UpdateColumn(caller, columnName, name, order, cards) ==
    /\ ops < MaxOps
    /\ caller \in Registered
    /\ Served
    /\ UNCHANGED <<accounts, created, owner, members, invites, inflight, version, authVars>>
    /\ LET fail(status) ==
               /\ last' = UpdateColumnResponse(caller, status, columnName, name,
                                               order, cards)
               /\ UNCHANGED columns
       IN  IF updateColumnRefused(name, order, cards) THEN fail(400)
           ELSE IF ~HasAccess(caller) THEN fail(404)
           ELSE \E outcome \in
                    {updateColumnOutcome(columns, columnName, name, order, cards)} :
                /\ columns' = outcome.columns
                /\ last' = UpdateColumnResponse(caller, outcome.status, columnName,
                                                name, order, cards)

----------------------------------------------------------------------------
(* DELETE /projects/:projectId/columns/:columnName *)

\* The remaining columns with the removed column's cards appended to the
\* column at targetIndex (1-based), each with the destination's name as status.
\* migrateCards that overwrites the destination's cards instead of appending.
migrateCardsOverwriting(cols, targetIndex, removedColumn) ==
    LET destinationName == cols[targetIndex].name
    IN  [cols EXCEPT ![targetIndex].cards =
            [i \in 1..Len(removedColumn.cards) |->
                [removedColumn.cards[i] EXCEPT !.status = destinationName]]]

\* migrateCards that leaves the status of the migrated cards as it was.
migrateCardsKeepStatus(cols, targetIndex, removedColumn) ==
    [cols EXCEPT ![targetIndex].cards = cols[targetIndex].cards \o removedColumn.cards]

migrateCards(cols, targetIndex, removedColumn) ==
    LET destinationName == cols[targetIndex].name
        migratedCards ==
            [i \in 1..Len(removedColumn.cards) |->
                [removedColumn.cards[i] EXCEPT !.status = destinationName]]
    IN  [cols EXCEPT ![targetIndex].cards = cols[targetIndex].cards \o migratedCards]

\* The part of the handler after the project was read: current is the
\* columns array the read returned.  The result is the status, whether the
\* handler goes on to write, the columns to write and the number of cards of
\* the removed column.
deleteColumnOutcome(current, columnName, targetColumn) ==
    LET sanitized == sanitizeColumns(current, FALSE)
        columnIndex == findColumnIndex(sanitized, columnName)
        removedColumn == sanitized[columnIndex]
        cols == RemoveAt(sanitized, columnIndex - 1)
        hasCards == Len(removedColumn.cards) > 0
        normalizedTarget == normalizeColumnName(targetColumn)
        targetIndex == findColumnIndex(cols, normalizedTarget)
        fail(status) ==
            [status |-> status, write |-> FALSE, columns |-> current, nCards |-> 0]
    IN  IF columnIndex = 0 THEN fail(404)
        ELSE IF hasCards /\ normalizedTarget = <<>> THEN fail(400)
        ELSE IF hasCards /\ targetIndex = 0 THEN fail(400)
        ELSE [status |-> 200, write |-> TRUE,
              columns |-> reindexColumns(
                            IF hasCards
                            THEN migrateCards(cols, targetIndex, removedColumn)
                            ELSE cols),
              nCards |-> Len(removedColumn.cards)]

\* What every column delete records of its request.
DeleteColumnResponse(caller, status, columnName, targetColumn, nCards) ==
    [Response("deleteColumn", caller, status) EXCEPT
        !.nCards = nCards,
        !.columnName = columnName,
        !.targetColumn = targetColumn]

DeleteColumn(caller, columnName, targetColumn) ==
    /\ ops < MaxOps
    /\ caller \in Registered
    /\ Served
    /\ UNCHANGED <<accounts, created, owner, members, invites, inflight, version, authVars>>
    /\ IF ~HasAccess(caller)
       THEN /\ last' = DeleteColumnResponse(caller, 404, columnName,
                                            targetColumn, 0)
            /\ UNCHANGED columns
       ELSE \E outcome \in {deleteColumnOutcome(columns, columnName, targetColumn)} :
                /\ columns' = outcome.columns
                /\ last' = DeleteColumnResponse(caller, outcome.status, columnName,
                                                targetColumn, outcome.nCards)

----------------------------------------------------------------------------
(* POST /projects/:projectId/columns, as the two steps its awaits separate: *)
(* the read of the project and, later, the write of the columns computed   *)
(* from that read.  Other requests may be served between the two.          *)

\* The requests that can be between read and write at one time.
Requests == {"r1", "r2"}

\* A request slot: its phase (idle, read, done), the route (create, update,
\* delete, accept), the request, the columns the read returned (column
\* routes) or the members, invites and version of the document it loaded
\* (accept-invite), the status of the response, and when it read and
\* answered.
Idle ==
    [phase |-> "idle", route |-> "none", caller |-> NoUser, name |-> <<>>,
     order |-> OrderUndefined, cards |-> CardsUndefined, columnName |-> <<>>,
     rename |-> NameUndefined, targetColumn |-> <<>>, project |-> <<>>,
     doc |-> [members |-> <<>>, invites |-> <<>>, version |-> 0],
     status |-> 0, readAt |-> 0, doneAt |-> 0,
     email |-> <<>>, otp |-> <<>>, otpDoc |-> [code |-> <<>>, expiresAt |-> 0]]

\* The number of reads and answers of two-step requests so far.
Clock ==
    Cardinality({r \in Requests : inflight[r].readAt > 0})
        + Cardinality({r \in Requests : inflight[r].doneAt > 0})

\* The columns the write is computed from, with the write computed from the
\* columns persisted at the time of the write.
baseForWriteCurrent(read, current) == current

\* The columns the write is computed from: those the request's own read
\* returned.
baseForWrite(read, current) == read

\* findOneAndUpdateByAccess that writes whether or not the query finds the
\* document.
findOneAndUpdateUnconditional(found, stored, updatedColumns) == updatedColumns

\* The columns after Project.findOneAndUpdate(buildProjectAccessQuery(...),
\* { columns: updatedColumns }): written when the query finds the document.
findOneAndUpdateByAccess(found, stored, updatedColumns) ==
    IF found THEN updatedColumns ELSE stored

\* The status of a handler that wrote: updatedProject.columns throws when
\* findOneAndUpdate found no document, and the handler answers 500.
statusAfterWrite(found, status) == IF found THEN status ELSE 500

BeginCreateColumn(r, caller, name, order, cards) ==
    /\ ops < MaxOps
    /\ caller \in Registered
    /\ inflight[r].phase = "idle"
    /\ UNCHANGED <<accounts, created, owner, columns, members, invites, version, authVars>>
    /\ LET request == [Idle EXCEPT !.route = "create", !.caller = caller,
                                   !.name = name, !.order = order, !.cards = cards]
           answer(status) ==
               /\ inflight' = [inflight EXCEPT ![r] =
                                 [request EXCEPT !.phase = "done", !.status = status,
                                                 !.doneAt = Clock + 1]]
               /\ last' = CreateColumnResponse(caller, status, name, order, cards)
               /\ Served
       IN  IF normalizeColumnName(name) = <<>> THEN answer(400)
           ELSE IF cards.t # "undefined" /\ ~IsArray(cards) THEN answer(400)
           ELSE IF ~HasAccess(caller) THEN answer(404)
           ELSE /\ inflight' = [inflight EXCEPT ![r] =
                                  [request EXCEPT !.phase = "read", !.project = columns,
                                                  !.readAt = Clock + 1]]
                /\ UNCHANGED <<last, ops>>

\* findOneAndUpdate finds no document when the caller lost access after the
\* read; updatedProject.columns then throws and the handler answers 500.
FinishCreateColumn(r) ==
    /\ inflight[r].phase = "read"
    /\ inflight[r].route = "create"
    /\ Served
    /\ UNCHANGED <<accounts, created, owner, members, invites, version, authVars>>
    /\ \E req \in {inflight[r]} :
       \E outcome \in {createColumnOutcome(baseForWrite(req.project, columns),
                        req.name, req.order, req.cards)} :
       LET status == IF ~outcome.write THEN outcome.status
                     ELSE statusAfterWrite(HasAccess(req.caller), 201)
       IN  /\ columns' = IF outcome.write
                          THEN findOneAndUpdateByAccess(HasAccess(req.caller),
                                                        columns, outcome.columns)
                          ELSE columns
           /\ inflight' = [inflight EXCEPT ![r] =
                             [req EXCEPT !.phase = "done", !.status = status,
                                         !.doneAt = Clock + 1]]
           /\ last' = IF status = 201
                      THEN [CreateColumnResponse(req.caller, 201, req.name,
                                                 req.order, req.cards) EXCEPT
                              !.nCards = Len(req.cards.v),
                              !.hasCards = IsArray(req.cards),
                              !.insertionIndex = outcome.insertionIndex,
                              !.column = outcome.column]
                      ELSE CreateColumnResponse(req.caller, status, req.name,
                                                req.order, req.cards)

\* PUT /projects/:projectId/columns/:columnName as two steps.
BeginUpdateColumn(r, caller, columnName, name, order, cards) ==
    /\ ops < MaxOps
    /\ caller \in Registered
    /\ inflight[r].phase = "idle"
    /\ UNCHANGED <<accounts, created, owner, columns, members, invites, version, authVars>>
    /\ LET request == [Idle EXCEPT !.route = "update", !.caller = caller,
                                   !.columnName = columnName, !.rename = name,
                                   !.order = order, !.cards = cards]
           answer(status) ==
               /\ inflight' = [inflight EXCEPT ![r] =
                                 [request EXCEPT !.phase = "done", !.status = status,
                                                 !.doneAt = Clock + 1]]
               /\ last' = UpdateColumnResponse(caller, status, columnName, name,
                                               order, cards)
               /\ Served
       IN  IF updateColumnRefused(name, order, cards) THEN answer(400)
           ELSE IF ~HasAccess(caller) THEN answer(404)
           ELSE /\ inflight' = [inflight EXCEPT ![r] =
                                  [request EXCEPT !.phase = "read", !.project = columns,
                                                  !.readAt = Clock + 1]]
                /\ UNCHANGED <<last, ops>>

FinishUpdateColumn(r) ==
    /\ inflight[r].phase = "read"
    /\ inflight[r].route = "update"
    /\ Served
    /\ UNCHANGED <<accounts, created, owner, members, invites, version, authVars>>
    /\ \E req \in {inflight[r]} :
       \E outcome \in {updateColumnOutcome(baseForWrite(req.project, columns),
                        req.columnName, req.rename, req.order, req.cards)} :
       LET status == IF ~outcome.write THEN outcome.status
                     ELSE statusAfterWrite(HasAccess(req.caller), 200)
       IN  /\ columns' = IF outcome.write
                          THEN findOneAndUpdateByAccess(HasAccess(req.caller),
                                                        columns, outcome.columns)
                          ELSE columns
           /\ inflight' = [inflight EXCEPT ![r] =
                             [req EXCEPT !.phase = "done", !.status = status,
                                         !.doneAt = Clock + 1]]
           /\ last' = UpdateColumnResponse(req.caller, status, req.columnName,
                                           req.rename, req.order, req.cards)

\* DELETE /projects/:projectId/columns/:columnName as two steps.
BeginDeleteColumn(r, caller, columnName, targetColumn) ==
    /\ ops < MaxOps
    /\ caller \in Registered
    /\ inflight[r].phase = "idle"
    /\ UNCHANGED <<accounts, created, owner, columns, members, invites, version, authVars>>
    /\ LET request == [Idle EXCEPT !.route = "delete", !.caller = caller,
                                   !.columnName = columnName,
                                   !.targetColumn = targetColumn]
       IN  IF ~HasAccess(caller)
           THEN /\ inflight' = [inflight EXCEPT ![r] =
                                  [request EXCEPT !.phase = "done", !.status = 404,
                                                  !.doneAt = Clock + 1]]
                /\ last' = DeleteColumnResponse(caller, 404, columnName,
                                                targetColumn, 0)
                /\ Served
           ELSE /\ inflight' = [inflight EXCEPT ![r] =
                                  [request EXCEPT !.phase = "read", !.project = columns,
                                                  !.readAt = Clock + 1]]
                /\ UNCHANGED <<last, ops>>

FinishDeleteColumn(r) ==
    /\ inflight[r].phase = "read"
    /\ inflight[r].route = "delete"
    /\ Served
    /\ UNCHANGED <<accounts, created, owner, members, invites, version, authVars>>
    /\ \E req \in {inflight[r]} :
       \E outcome \in {deleteColumnOutcome(baseForWrite(req.project, columns),
                        req.columnName, req.targetColumn)} :
       LET status == IF ~outcome.write THEN outcome.status
                     ELSE statusAfterWrite(HasAccess(req.caller), 200)
       IN  /\ columns' = IF outcome.write
                          THEN findOneAndUpdateByAccess(HasAccess(req.caller),
                                                        columns, outcome.columns)
                          ELSE columns
           /\ inflight' = [inflight EXCEPT ![r] =
                             [req EXCEPT !.phase = "done", !.status = status,
                                         !.doneAt = Clock + 1]]
           /\ last' = DeleteColumnResponse(req.caller, status, req.columnName,
                                           req.targetColumn,
                                           IF status = 200 THEN outcome.nCards ELSE 0)

----------------------------------------------------------------------------
(* GET /projects/:projectId, GET /projects/:projectId/columns,             *)
(* GET /projects/:projectId/columns/:columnName                             *)

Read(op, caller, status) ==
    /\ ops < MaxOps
    /\ caller \in Registered
    /\ Served
    /\ last' = Response(op, caller, status)
    /\ UNCHANGED <<accounts, created, owner, columns, members, invites, inflight, version, authVars>>

GetProject(caller) ==
    Read("getProject", caller, IF HasAccess(caller) THEN 200 ELSE 404)

GetColumns(caller) ==
    Read("getColumns", caller, IF HasAccess(caller) THEN 200 ELSE 404)

GetColumn(caller, columnName) ==
    /\ ops < MaxOps
    /\ caller \in Registered
    /\ Served
    /\ UNCHANGED <<accounts, created, owner, columns, members, invites, inflight, version, authVars>>
    /\ LET cols == normalizeExistingColumns(columns, FALSE)
           columnIndex == findColumnIndex(cols, columnName)
           status == IF ~HasAccess(caller) THEN 404
                     ELSE IF columnIndex = 0 THEN 404 ELSE 200
       IN  last' = [Response("getColumn", caller, status) EXCEPT
                      !.columnName = columnName]

----------------------------------------------------------------------------
(* POST /auth/signup/verify, as far as the User directory goes: a verified  *)
(* email with no account gets one.  The schema lower-cases the email and   *)
(* does not trim it.                                                       *)

Signup(email) ==
    /\ email # <<>>
    /\ \E u \in UserIds : accounts[u] = <<>>
    /\ ~\E u \in UserIds : accounts[u] = ToLowerCase(email)
    /\ LET k == CHOOSE i \in 1..Len(UserOrder) :
                   /\ accounts[UserOrder[i]] = <<>>
                   /\ \A j \in 1..(i - 1) : accounts[UserOrder[j]] # <<>>
       IN  accounts' = [accounts EXCEPT ![UserOrder[k]] = ToLowerCase(email)]
    /\ last' = Response("signup", NoUser, 200)
    /\ UNCHANGED <<created, owner, columns, members, invites, ops, inflight, version, authVars>>

----------------------------------------------------------------------------
(* The email lists of invite and revoke *)

\* One entry of a request's emails array, or its email field: a string or
\* something else.
EmailUndefined == [t |-> "undefined", s |-> <<>>]
EmailString(s) == [t |-> "string",    s |-> s]
EmailOther     == [t |-> "number",    s |-> <<>>]

normalizeEmail(email) ==
    IF email.t # "string" THEN <<>> ELSE ToLowerCase(Trim(email.s))

\* [...new Set(s)]: the first occurrence of each element, in order.
RECURSIVE Distinct(_)
Distinct(s) ==
    IF s = <<>> THEN <<>>
    ELSE LET front == Distinct(SubSeq(s, 1, Len(s) - 1))
             x == s[Len(s)]
         IN  IF x \in Range(front) THEN front ELSE Append(front, x)

IsBlank(e) == normalizeEmail(e) = <<>>
IsValid(e) == normalizeEmail(e) # <<>>

requestedEmails(email, emails) ==
    (IF emails.t = "array" THEN emails.v ELSE <<>>)
    \o (IF email.t = "string" /\ email.s # <<>> THEN <<email>> ELSE <<>>)

invalidEmailsOf(requested) == SelectSeq(requested, IsBlank)

\* normalizedEmailsOf that keeps the repeats.
normalizedEmailsWithRepeats(requested) ==
    LET valid == SelectSeq(requested, IsValid)
    IN  [i \in 1..Len(valid) |-> normalizeEmail(valid[i])]

normalizedEmailsOf(requested) ==
    LET valid == SelectSeq(requested, IsValid)
    IN  Distinct([i \in 1..Len(valid) |-> normalizeEmail(valid[i])])

\* userByEmail.get(email) after User.find({ email: { $in: normalizedEmails } }):
\* the account whose stored email is exactly the normalised email, or NoUser.
userByEmail(email) ==
    IF \E u \in UserIds : accounts[u] = email
    THEN CHOOSE u \in UserIds : accounts[u] = email
    ELSE NoUser

\* hasPending that compares the status with a value no invite carries.
hasPendingWrongStatus(invs, email) ==
    \E i \in 1..Len(invs) : invs[i].email = email /\ invs[i].status = "Pending"

hasPending(invs, email) ==
    \E i \in 1..Len(invs) : invs[i].email = email /\ invs[i].status = "pending"

firstPending(invs, email) ==
    CHOOSE i \in 1..Len(invs) :
        /\ invs[i].email = email /\ invs[i].status = "pending"
        /\ \A j \in 1..(i - 1) : ~(invs[j].email = email /\ invs[j].status = "pending")

----------------------------------------------------------------------------
(* POST /projects/:projectId/invite *)

\* markInviteAccepted that stops at the first pending invite of the email.
markFirstInviteAccepted(invs, targetEmail) ==
    IF \E i \in 1..Len(invs) : invs[i].email = targetEmail /\ invs[i].status = "pending"
    THEN [invs EXCEPT ![firstPending(invs, targetEmail)].status = "accepted"]
    ELSE invs

\* markInviteAccepted that does not look at the status of the invite.
markInviteAcceptedAnyStatus(invs, targetEmail) ==
    [i \in 1..Len(invs) |->
        IF invs[i].email = targetEmail
        THEN [invs[i] EXCEPT !.status = "accepted"]
        ELSE invs[i]]

markInviteAccepted(invs, targetEmail) ==
    [i \in 1..Len(invs) |->
        IF invs[i].email = targetEmail /\ invs[i].status = "pending"
        THEN [invs[i] EXCEPT !.status = "accepted"]
        ELSE invs[i]]

\* inviteStep without the test for a pending invite.
inviteStepNoPendingTest(st, caller, normalizedEmail) ==
    LET existingUser == userByEmail(normalizedEmail)
        alreadyScheduled ==
            \/ \E i \in 1..Len(st.membersToAdd) : st.membersToAdd[i].user = existingUser
            \/ isProjectMember(existingUser)
    IN  IF existingUser # NoUser
        THEN IF alreadyScheduled
             THEN [st EXCEPT !.results.alreadyMembers = Append(@, normalizedEmail)]
             ELSE [st EXCEPT
                     !.membersToAdd = Append(@, [user |-> existingUser,
                                                 role |-> "collaborator",
                                                 addedBy |-> caller]),
                     !.invites = markInviteAccepted(@, normalizedEmail),
                     !.results.addedMembers = Append(@, normalizedEmail)]
        ELSE [st EXCEPT
                !.invitesToAdd = Append(@, [email |-> normalizedEmail,
                                            invitedBy |-> caller,
                                            status |-> "pending"]),
                !.results.invitationsSent = Append(@, normalizedEmail)]

\* One pass of the forEach over normalizedEmails; st carries project.invites,
\* membersToAdd, invitesToAdd and results.
inviteStep(st, caller, normalizedEmail) ==
    LET existingUser == userByEmail(normalizedEmail)
        alreadyScheduled ==
            \/ \E i \in 1..Len(st.membersToAdd) : st.membersToAdd[i].user = existingUser
            \/ isProjectMember(existingUser)
    IN  IF existingUser # NoUser
        THEN IF alreadyScheduled
             THEN [st EXCEPT !.results.alreadyMembers = Append(@, normalizedEmail)]
             ELSE [st EXCEPT
                     !.membersToAdd = Append(@, [user |-> existingUser,
                                                 role |-> "collaborator",
                                                 addedBy |-> caller]),
                     !.invites = markInviteAccepted(@, normalizedEmail),
                     !.results.addedMembers = Append(@, normalizedEmail)]
        ELSE IF hasPending(st.invites, normalizedEmail)
             THEN [st EXCEPT !.results.alreadyInvited = Append(@, normalizedEmail)]
             ELSE [st EXCEPT
                     !.invitesToAdd = Append(@, [email |-> normalizedEmail,
                                                 invitedBy |-> caller,
                                                 status |-> "pending"]),
                     !.results.invitationsSent = Append(@, normalizedEmail)]

RECURSIVE inviteLoop(_, _, _)
inviteLoop(st, caller, emails) ==
    IF emails = <<>> THEN st
    ELSE inviteLoop(inviteStep(st, caller, Head(emails)), caller, Tail(emails))

Invite(caller, email, emails) ==
    /\ ops < MaxOps
    /\ caller \in Registered
    /\ Served
    /\ UNCHANGED <<accounts, created, owner, columns, inflight, authVars>>
    /\ LET requested == requestedEmails(email, emails)
           invalidEmails == invalidEmailsOf(requested)
           normalizedEmails == normalizedEmailsOf(requested)
           done == inviteLoop([invites |-> invites, membersToAdd |-> <<>>,
                               invitesToAdd |-> <<>>,
                               results |-> [NoResult EXCEPT
                                              !.invalidEmails = invalidEmails]],
                              caller, normalizedEmails)
           fail(status) ==
               /\ last' = [Response("invite", caller, status) EXCEPT
                             !.emails = normalizedEmails,
                             !.requested = requested, !.email = email]
               /\ UNCHANGED <<members, invites, version>>
       IN  IF normalizedEmails = <<>> THEN fail(400)
           ELSE IF ~HasAccess(caller) THEN fail(404)
           ELSE IF ~isProjectOwner(caller) THEN fail(403)
           ELSE /\ members' = members \o done.membersToAdd
                /\ invites' = done.invites \o done.invitesToAdd
                /\ version' = versionAfterSave(version,
                                  done.membersToAdd # <<>> \/ done.invitesToAdd # <<>>)
                /\ last' = [Response("invite", caller, 200) EXCEPT
                              !.emails = normalizedEmails, !.result = done.results,
                              !.requested = requested, !.email = email]

----------------------------------------------------------------------------
(* DELETE /projects/:projectId/invite *)

memberIndexOf(mems, userId) ==
    IF \E i \in 1..Len(mems) : mems[i].user = userId
    THEN CHOOSE i \in 1..Len(mems) :
            /\ mems[i].user = userId
            /\ \A j \in 1..(i - 1) : mems[j].user # userId
    ELSE 0

\* revokeStep without the test for the owner.
revokeStepNoOwnerTest(st, normalizedEmail) ==
    LET existingUser == userByEmail(normalizedEmail)
        memberIndex == IF existingUser = NoUser THEN 0
                       ELSE memberIndexOf(st.members, existingUser)
    IN  IF memberIndex > 0
        THEN [st EXCEPT !.members = RemoveAt(@, memberIndex - 1),
                        !.result.membersRemoved = Append(@, normalizedEmail)]
        ELSE IF hasPending(st.invites, normalizedEmail)
        THEN [st EXCEPT
                !.invites[firstPending(st.invites, normalizedEmail)].status = "cancelled",
                !.result.invitesCancelled = Append(@, normalizedEmail)]
        ELSE [st EXCEPT !.result.notFound = Append(@, normalizedEmail)]

\* One pass of the forEach over normalizedEmails; st carries project.members,
\* project.invites and result.
revokeStep(st, normalizedEmail) ==
    LET existingUser == userByEmail(normalizedEmail)
        isOwnerTarget == existingUser # NoUser /\ owner = existingUser
        memberIndex == IF existingUser = NoUser THEN 0
                       ELSE memberIndexOf(st.members, existingUser)
    IN  IF isOwnerTarget
        THEN [st EXCEPT !.result.notRemovable = Append(@, normalizedEmail)]
        ELSE IF memberIndex > 0
        THEN [st EXCEPT !.members = RemoveAt(@, memberIndex - 1),
                        !.result.membersRemoved = Append(@, normalizedEmail)]
        ELSE IF hasPending(st.invites, normalizedEmail)
        THEN [st EXCEPT
                !.invites[firstPending(st.invites, normalizedEmail)].status = "cancelled",
                !.result.invitesCancelled = Append(@, normalizedEmail)]
        ELSE [st EXCEPT !.result.notFound = Append(@, normalizedEmail)]

\* nothingRevoked that also asks for an empty notFound list.
nothingRevokedNoneMissing(result) ==
    /\ result.membersRemoved = <<>>
    /\ result.invitesCancelled = <<>>
    /\ result.notFound = <<>>

\* The test that answers 404 without saving.
nothingRevoked(result) ==
    result.membersRemoved = <<>> /\ result.invitesCancelled = <<>>

RECURSIVE revokeLoop(_, _)
revokeLoop(st, emails) ==
    IF emails = <<>> THEN st
    ELSE revokeLoop(revokeStep(st, Head(emails)), Tail(emails))

Revoke(caller, email, emails) ==
    /\ ops < MaxOps
    /\ caller \in Registered
    /\ Served
    /\ UNCHANGED <<accounts, created, owner, columns, inflight, authVars>>
    /\ LET requested == requestedEmails(email, emails)
           invalidEmails == invalidEmailsOf(requested)
           normalizedEmails == normalizedEmailsOf(requested)
           done == revokeLoop([members |-> members, invites |-> invites,
                               result |-> [NoResult EXCEPT
                                             !.invalidEmails = invalidEmails]],
                              normalizedEmails)
           fail(status) ==
               /\ last' = [Response("revoke", caller, status) EXCEPT
                             !.emails = normalizedEmails,
                             !.requested = requested, !.email = email]
               /\ UNCHANGED <<members, invites, version>>
       IN  IF normalizedEmails = <<>> THEN fail(400)
           ELSE IF ~HasAccess(caller) THEN fail(404)
           ELSE IF ~isProjectOwner(caller) THEN fail(403)
           ELSE IF nothingRevoked(done.result)
           THEN /\ last' = [Response("revoke", caller, 404) EXCEPT
                              !.emails = normalizedEmails, !.result = done.result,
                              !.requested = requested, !.email = email]
                /\ UNCHANGED <<members, invites, version>>
           ELSE /\ members' = done.members
                /\ invites' = done.invites
                /\ version' = versionAfterSave(version,
                                                done.result.membersRemoved # <<>>)
                /\ last' = [Response("revoke", caller, 200) EXCEPT
                              !.emails = normalizedEmails, !.result = done.result,
                              !.requested = requested, !.email = email]

----------------------------------------------------------------------------
(* POST /projects/:projectId/accept-invite *)

AcceptInvite(caller) ==
    /\ ops < MaxOps
    /\ caller \in Registered
    /\ Served
    /\ UNCHANGED <<accounts, created, owner, columns, inflight, authVars>>
    /\ LET email == ToLowerCase(Trim(accounts[caller]))
       IN  IF ~(created /\ hasPending(invites, email))
           THEN /\ last' = Response("acceptInvite", caller, 404)
                /\ UNCHANGED <<members, invites, version>>
           ELSE LET i == firstPending(invites, email)
                    invitedBy == invites[i].invitedBy
                IN  /\ members' =
                          IF ~isProjectMember(caller)
                          THEN Append(members,
                                      [user |-> caller, role |-> "collaborator",
                                       addedBy |-> IF invitedBy # NoUser
                                                   THEN invitedBy ELSE caller])
                          ELSE members
                    /\ invites' = [invites EXCEPT ![i].status = "accepted"]
                    /\ version' = versionAfterSave(version, ~isProjectMember(caller))
                    /\ last' = Response("acceptInvite", caller, 200)

----------------------------------------------------------------------------
(* The auth routes.  Time is counted in ticks of ten minutes; an email of  *)
(* a request is a lower-case string.                                       *)

MaxTime == 2
MaxAuthOps == 6

\* expiresAt = Date.now() + 10 * 60 * 1000: one tick.
OtpLifetime == 1

\* The ticks a token lives: expiresIn is '12h', which the model shortens so
\* that a token expires within MaxTime.
TokenLifetime == 2

OtpTypes == {"signup", "login"}
OtpCodes == {<<"1">>, <<"2">>}
NoOtp == [code |-> <<>>, expiresAt |-> 0]

\* The tokens jwt.verify accepts the signature of.
SignedTokens == [userId : UserIds, iat : 0..MaxTime]

\* jwt.sign({ userId }, secret, { expiresIn: '12h' }) at the present time.
sign(userId) == [userId |-> userId, iat |-> now]

\* authMiddleware that trusts every token jwt.verify accepts.
authMiddlewareJwtOnly(token) ==
    /\ token \in SignedTokens
    /\ now < token.iat + TokenLifetime

\* Whether authMiddleware calls next(): jwt.verify accepts the token, the
\* user exists and the token is the one stored for the user.
authMiddleware(token) ==
    /\ token \in SignedTokens
    /\ now < token.iat + TokenLifetime
    /\ accounts[token.userId] # <<>>
    /\ tokens[token.userId] = token

\* User.findOne({ email }): the user id, or NoUser.
findUser(email) ==
    IF \E u \in UserIds : accounts[u] = email
    THEN CHOOSE u \in UserIds : accounts[u] = email
    ELSE NoUser

\* The id User.create gives the next user.
nextUserId ==
    UserOrder[CHOOSE i \in 1..Len(UserOrder) :
                  /\ accounts[UserOrder[i]] = <<>>
                  /\ \A j \in 1..(i - 1) : accounts[UserOrder[j]] # <<>>]

AuthResponse(op, status, email, otp, message) ==
    [Response(op, NoUser, status) EXCEPT
        !.email = [t |-> "string", s |-> email], !.otp = otp, !.message = message]

AuthServed == ops < MaxAuthOps /\ ops' = ops + 1

ProjectUnchanged ==
    UNCHANGED <<created, owner, columns, members, invites, inflight, version>>

\* Otp.deleteMany({ email, type }) and Otp.create with a fresh code.
SendOtp(op, email, type) ==
    \E code \in OtpCodes :
        /\ otps' = [otps EXCEPT ![<<email, type>>] =
                       [code |-> code, expiresAt |-> now + OtpLifetime]]
        /\ otpSent' = otpSent \cup {<<email, type>>}
        /\ last' = [AuthResponse(op, 200, email, <<>>, "OTP sent to email")
                      EXCEPT !.code = code]

SignupSendOtp(email) ==
    /\ AuthServed
    /\ ProjectUnchanged
    /\ UNCHANGED <<accounts, tokens, passwords, now, passwordChecked, issued>>
    /\ IF email = <<>>
       THEN /\ last' = AuthResponse("signupSendOtp", 400, email, <<>>,
                                    "Email is required")
            /\ UNCHANGED <<otps, otpSent>>
       ELSE SendOtp("signupSendOtp", email, "signup")

LoginSendOtp(email, password) ==
    /\ AuthServed
    /\ ProjectUnchanged
    /\ UNCHANGED <<accounts, tokens, passwords, now, issued>>
    /\ LET user == findUser(email)
           fail(message) ==
               /\ last' = AuthResponse("loginSendOtp", 400, email, <<>>, message)
               /\ UNCHANGED <<otps, passwordChecked, otpSent>>
       IN  IF email = <<>> \/ password = <<>>
           THEN fail("email and password are required")
           ELSE IF user = NoUser THEN fail("Invalid credentials")
           ELSE IF passwords[user] = <<>> THEN fail("Please complete profile first")
           ELSE IF passwords[user] # password THEN fail("Invalid credentials")
           ELSE /\ SendOtp("loginSendOtp", email, "login")
                /\ passwordChecked' = passwordChecked \cup {email}

\* verifyOtp that does not look at the expiry.
verifyOtpNoExpiry(otpDoc, otp) ==
    IF otpDoc = NoOtp THEN "OTP not found or expired"
    ELSE IF otpDoc.code # otp THEN "Invalid OTP"
    ELSE "ok"

\* The checks both verify handlers make of the Otp record they read.
verifyOtp(otpDoc, otp) ==
    IF otpDoc = NoOtp THEN "OTP not found or expired"
    ELSE IF otpDoc.expiresAt < now THEN "OTP expired"
    ELSE IF otpDoc.code # otp THEN "Invalid OTP"
    ELSE "ok"

\* What a refused verification leaves of the Otp records: the expired
\* record is deleted.
otpsAfterRefusal(email, type, verdict) ==
    IF verdict = "OTP expired"
    THEN [otps EXCEPT ![<<email, type>>] = NoOtp]
    ELSE otps

SignupVerify(email, otp) ==
    /\ AuthServed
    /\ ProjectUnchanged
    /\ UNCHANGED <<passwords, now, passwordChecked>>
    /\ LET otpDoc == otps[<<email, "signup">>]
           verdict == verifyOtp(otpDoc, otp)
           found == findUser(email)
           user == IF found # NoUser THEN found ELSE nextUserId
           token == sign(user)
       IN  IF email = <<>> \/ otp = <<>>
           THEN /\ last' = AuthResponse("signupVerify", 400, email, otp,
                                        "email and otp are required")
                /\ UNCHANGED <<accounts, tokens, otps, issued, otpSent>>
           ELSE IF verdict # "ok"
           THEN /\ last' = [AuthResponse("signupVerify", 400, email, otp, verdict)
                              EXCEPT !.code = otpDoc.code]
                /\ otps' = otpsAfterRefusal(email, "signup", verdict)
                /\ UNCHANGED otpSent
                /\ UNCHANGED <<accounts, tokens, issued>>
           ELSE /\ accounts' = [accounts EXCEPT ![user] = email]
                /\ otps' = [otps EXCEPT ![<<email, "signup">>] = NoOtp]
                /\ otpSent' = otpSent \ {<<email, "signup">>}
                /\ tokens' = [tokens EXCEPT ![user] = token]
                /\ issued' = issued \cup {token}
                /\ last' = [AuthResponse("signupVerify", 200, email, otp,
                                         "Signup success")
                              EXCEPT !.code = otpDoc.code, !.token = token,
                                     !.caller = user]

LoginVerify(email, otp) ==
    /\ AuthServed
    /\ ProjectUnchanged
    /\ UNCHANGED <<accounts, passwords, now>>
    /\ LET otpDoc == otps[<<email, "login">>]
           verdict == verifyOtp(otpDoc, otp)
           user == findUser(email)
           token == sign(user)
           fail(message) ==
               /\ last' = [AuthResponse("loginVerify", 400, email, otp, message)
                             EXCEPT !.code = otpDoc.code]
               /\ otps' = otpsAfterRefusal(email, "login", message)
               /\ UNCHANGED otpSent
               /\ UNCHANGED <<tokens, passwordChecked, issued>>
       IN  IF email = <<>> \/ otp = <<>>
           THEN /\ last' = AuthResponse("loginVerify", 400, email, otp,
                                        "email and otp are required")
                /\ UNCHANGED <<tokens, otps, passwordChecked, issued, otpSent>>
           ELSE IF verdict # "ok" THEN fail(verdict)
           ELSE IF user = NoUser THEN fail("User not found")
           ELSE /\ otps' = [otps EXCEPT ![<<email, "login">>] = NoOtp]
                /\ otpSent' = otpSent \ {<<email, "login">>}
                /\ tokens' = [tokens EXCEPT ![user] = token]
                /\ issued' = issued \cup {token}
                /\ passwordChecked' = passwordChecked \ {email}
                /\ last' = [AuthResponse("loginVerify", 200, email, otp,
                                         "Login success")
                              EXCEPT !.code = otpDoc.code, !.token = token,
                                     !.caller = user]

\* login/verify as the two steps its awaits separate.  The first step checks
\* the body, reads the latest login Otp record of the email and checks it;
\* a refusal is answered at once.
BeginLoginVerify(r, email, otp) ==
    /\ ops < MaxAuthOps
    /\ inflight[r].phase = "idle"
    /\ UNCHANGED <<accounts, created, owner, columns, members, invites, version,
                   tokens, passwords, now, passwordChecked, issued>>
    /\ LET otpDoc == otps[<<email, "login">>]
           verdict == verifyOtp(otpDoc, otp)
           request == [Idle EXCEPT !.route = "loginVerify", !.email = email,
                                   !.otp = otp, !.otpDoc = otpDoc]
           refuse(message) ==
               /\ inflight' = [inflight EXCEPT ![r] =
                                 [request EXCEPT !.phase = "done", !.status = 400,
                                                 !.doneAt = Clock + 1]]
               /\ last' = [AuthResponse("loginVerify", 400, email, otp, message)
                             EXCEPT !.code = otpDoc.code]
               /\ otps' = otpsAfterRefusal(email, "login", message)
               /\ UNCHANGED otpSent
               /\ ops' = ops + 1
       IN  IF email = <<>> \/ otp = <<>>
           THEN refuse("email and otp are required")
           ELSE IF verdict # "ok" THEN refuse(verdict)
           ELSE /\ inflight' = [inflight EXCEPT ![r] =
                                  [request EXCEPT !.phase = "read",
                                                  !.readAt = Clock + 1]]
                /\ UNCHANGED <<otps, last, ops, otpSent>>

\* The second step of login/verify: the user is looked up, the login Otp
\* records of the email are deleted and the token is issued and stored.
FinishLoginVerify(r) ==
    /\ inflight[r].phase = "read"
    /\ inflight[r].route = "loginVerify"
    /\ ops' = ops + 1
    /\ UNCHANGED <<accounts, created, owner, columns, members, invites, version,
                   passwords, now>>
    /\ LET req == inflight[r]
           user == findUser(req.email)
           token == sign(user)
       IN  IF user = NoUser
           THEN /\ inflight' = [inflight EXCEPT ![r] =
                                  [req EXCEPT !.phase = "done", !.status = 400,
                                              !.doneAt = Clock + 1]]
                /\ last' = [AuthResponse("loginVerify", 400, req.email, req.otp,
                                         "User not found")
                              EXCEPT !.code = req.otpDoc.code]
                /\ UNCHANGED <<otps, tokens, passwordChecked, issued, otpSent>>
           ELSE /\ inflight' = [inflight EXCEPT ![r] =
                                  [req EXCEPT !.phase = "done", !.status = 200,
                                              !.doneAt = Clock + 1]]
                /\ otps' = [otps EXCEPT ![<<req.email, "login">>] = NoOtp]
                /\ otpSent' = otpSent \ {<<req.email, "login">>}
                /\ tokens' = [tokens EXCEPT ![user] = token]
                /\ issued' = issued \cup {token}
                /\ passwordChecked' = passwordChecked \ {req.email}
                /\ last' = [AuthResponse("loginVerify", 200, req.email, req.otp,
                                         "Login success")
                              EXCEPT !.code = req.otpDoc.code, !.token = token,
                                     !.caller = user]

\* PUT /auth/update-profile, as far as the password goes.
UpdateProfile(token, password) ==
    /\ AuthServed
    /\ ProjectUnchanged
    /\ UNCHANGED <<accounts, tokens, otps, now, passwordChecked, issued, otpSent>>
    /\ IF ~authMiddleware(token)
       THEN /\ last' = [Response("updateProfile", NoUser, 401) EXCEPT !.token = token]
            /\ UNCHANGED passwords
       ELSE IF password = <<>>
       THEN /\ last' = [Response("updateProfile", token.userId, 400)
                          EXCEPT !.token = token]
            /\ UNCHANGED passwords
       ELSE /\ passwords' = [passwords EXCEPT ![token.userId] = password]
            /\ last' = [Response("updateProfile", token.userId, 200)
                          EXCEPT !.token = token]

Logout(token) ==
    /\ AuthServed
    /\ ProjectUnchanged
    /\ UNCHANGED <<accounts, passwords, otps, now, passwordChecked, otpSent>>
    /\ IF ~authMiddleware(token)
       THEN /\ last' = [Response("logout", NoUser, 401) EXCEPT !.token = token]
            /\ UNCHANGED <<tokens, issued>>
       ELSE /\ tokens' = [tokens EXCEPT ![token.userId] = NoToken]
            /\ UNCHANGED issued
            /\ last' = [Response("logout", token.userId, 200) EXCEPT !.token = token]

\* Ten minutes pass.
Tick ==
    /\ now < MaxTime
    /\ now' = now + 1
    /\ ProjectUnchanged
    /\ UNCHANGED <<accounts, ops, last, tokens, passwords, otps, passwordChecked, issued, otpSent>>

\* The TTL index on expiresAt: the database removes a record whose expiry
\* time has come, at a time of its choosing.
ExpireOtp ==
    \E key \in DOMAIN otps :
        /\ otps[key] # NoOtp
        /\ otps[key].expiresAt <= now
        /\ otps' = [otps EXCEPT ![key] = NoOtp]
        /\ UNCHANGED otpSent
        /\ ProjectUnchanged
        /\ UNCHANGED <<accounts, ops, last, tokens, passwords, now, passwordChecked, issued>>

\* accept-invite as the two steps its awaits separate: Project.findOne loads
\* the document, and project.save() later writes what the handler changed
\* on it.
BeginAcceptInvite(r, caller) ==
    /\ ops < MaxOps
    /\ caller \in Registered
    /\ inflight[r].phase = "idle"
    /\ UNCHANGED <<accounts, created, owner, columns, members, invites, version,
                   authVars>>
    /\ LET email == ToLowerCase(Trim(accounts[caller]))
           request == [Idle EXCEPT !.route = "accept", !.caller = caller]
       IN  IF ~(created /\ hasPending(invites, email))
           THEN /\ inflight' = [inflight EXCEPT ![r] =
                                  [request EXCEPT !.phase = "done", !.status = 404,
                                                  !.doneAt = Clock + 1]]
                /\ last' = Response("acceptInvite", caller, 404)
                /\ Served
           ELSE /\ inflight' = [inflight EXCEPT ![r] =
                                  [request EXCEPT
                                      !.phase = "read",
                                      !.doc = [members |-> members,
                                               invites |-> invites,
                                               version |-> version],
                                      !.readAt = Clock + 1]]
                /\ UNCHANGED <<last, ops>>

\* Whether project.save() finds the document: the update sets a field of an
\* element of invites in place, so Mongoose adds the version the document
\* was loaded with to the query.
saveFindsDocument(loadedVersion, storedVersion) == loadedVersion = storedVersion

\* The save sends what the handler changed: a push to members when the
\* caller was not a member of the loaded document, and status "accepted" for
\* the element of invites the handler found pending in the loaded
\* document.  A save that finds no document throws and the handler answers
\* 500.
FinishAcceptInvite(r) ==
    /\ inflight[r].phase = "read"
    /\ inflight[r].route = "accept"
    /\ Served
    /\ UNCHANGED <<accounts, created, owner, columns, authVars>>
    /\ LET req == inflight[r]
           caller == req.caller
           email == ToLowerCase(Trim(accounts[caller]))
           i == firstPending(req.doc.invites, email)
           invitedBy == req.doc.invites[i].invitedBy
           wasMember ==
               \/ owner = caller
               \/ \E k \in 1..Len(req.doc.members) : req.doc.members[k].user = caller
           saved == saveFindsDocument(req.doc.version, version)
           status == IF saved THEN 200 ELSE 500
       IN  /\ IF saved
              THEN /\ members' =
                         IF ~wasMember
                         THEN Append(members,
                                     [user |-> caller, role |-> "collaborator",
                                      addedBy |-> IF invitedBy # NoUser
                                                  THEN invitedBy ELSE caller])
                         ELSE members
                   /\ invites' = [invites EXCEPT ![i].status = "accepted"]
                   /\ version' = versionAfterSave(version, ~wasMember)
              ELSE UNCHANGED <<members, invites, version>>
           /\ inflight' = [inflight EXCEPT ![r] =
                             [req EXCEPT !.phase = "done", !.status = status,
                                         !.doneAt = Clock + 1]]
           /\ last' = Response("acceptInvite", caller, status)

----------------------------------------------------------------------------
(* Initial state: no account, no project *)

Init ==
    /\ accounts = [u \in UserIds |-> <<>>]
    /\ created = FALSE
    /\ owner = NoUser
    /\ columns = <<>>
    /\ members = <<>>
    /\ invites = <<>>
    /\ ops = 0
    /\ last = Response("none", NoUser, 0)
    /\ inflight = [r \in Requests |-> Idle]
    /\ version = 0
    /\ tokens = [u \in UserIds |-> NoToken]
    /\ passwords = [u \in UserIds |-> <<>>]
    /\ otps = [key \in AuthEmails \X OtpTypes |-> NoOtp]
    /\ now = 0
    /\ passwordChecked = {}
    /\ issued = {}
    /\ otpSent = {}

----------------------------------------------------------------------------
(* Requests of the board specification *)

NameA      == <<"A">>
NameLowerA == <<"a">>
NamePadA   == <<" ", "A", " ">>
NameB      == <<"B">>
NameC      == <<"C">>
ProjectName == <<"P">>

EmailA == <<"a", "@", "x">>
EmailB == <<"b", "@", "x">>
EmailC == <<"c", "@", "x">>

\* A card that leaves every field to its default, and one that carries its
\* own title and status.
CardBare ==
    [title |-> <<>>, description |-> <<>>, status |-> <<>>,
     assignee |-> NoUser, dueDate |-> ""]
CardOwnStatus ==
    [title |-> <<"T">>, description |-> <<"d">>, status |-> Done,
     assignee |-> "u1", dueDate |-> "d1"]

ColumnInput(name, order, cards) ==
    [name |-> name, order |-> order, cards |-> cards, defaultCard |-> "absent"]

\* The columns arrays of project create and project update.
ProjectColumnInputs ==
    { <<>>,
      << ColumnInput(NameA, OrderUndefined, CardsUndefined) >>,
      << ColumnInput(NameA, OrderNumber(Num(3)), CardsArray(<<CardBare>>)),
         ColumnInput(NameLowerA, OrderNumber(Num(3)), CardsUndefined) >>,
      << ColumnInput(<<>>, OrderNumber(Num(5)), CardsArray(<<CardOwnStatus>>)),
         ColumnInput(NameB, OrderNumber(Num(1)), CardsArray(<<>>)) >>,
      << ColumnInput(NamePadA, OrderString(Num(2)), CardsUndefined),
         [ColumnInput(NameB, OrderNumber(Num(0)), CardsUndefined)
            EXCEPT !.defaultCard = "true"] >>,
      << [ColumnInput(NameA, OrderUndefined, CardsUndefined)
            EXCEPT !.defaultCard = "false"] >> }

FieldUnset == [set |-> FALSE, v |-> <<>>]
OwnerUnset == [set |-> FALSE, v |-> NoUser]

ColumnsBody(cols) ==
    [columns |-> cols, owner |-> OwnerUnset, members |-> FieldUnset,
     invites |-> FieldUnset]

BoardBodies ==
    {ColumnsBody(CardsUndefined)}
    \cup {ColumnsBody(CardsArray(cols)) : cols \in ProjectColumnInputs}

ColumnRequest(name, order, cards) == [name |-> name, order |-> order, cards |-> cards]

\* The bodies of column create: name is a string or absent (<<>>).
CreateColumnRequests ==
    { ColumnRequest(<<>>, OrderUndefined, CardsUndefined),
      ColumnRequest(NameA, OrderUndefined, CardsNull),
      ColumnRequest(NameA, OrderUndefined, CardsUndefined),
      ColumnRequest(NamePadA, OrderNumber(Half(0)), CardsArray(<<CardBare>>)),
      ColumnRequest(NameB, OrderNumber(Num(1)), CardsArray(<<CardOwnStatus, CardBare>>)),
      ColumnRequest(NameB, OrderString(Num(9)), CardsUndefined),
      ColumnRequest(NameLowerA, OrderNumber(Num(0)), CardsUndefined),
      ColumnRequest(NameC, OrderNumber(Num(-1)), CardsUndefined),
      ColumnRequest(NameC, OrderText, CardsArray(<<>>)),
      ColumnRequest(NameC, OrderNumber(Half(1)), CardsUndefined),
      ColumnRequest(NameC, OrderNumber(Num(2)), CardsUndefined) }

\* The bodies of column update.
UpdateColumnRequests ==
    { ColumnRequest(NameUndefined, OrderUndefined, CardsUndefined),
      ColumnRequest(NameString(<<" ">>), OrderUndefined, CardsUndefined),
      ColumnRequest(NameString(NameLowerA), OrderUndefined, CardsUndefined),
      ColumnRequest(NameString(NameB), OrderUndefined, CardsUndefined),
      ColumnRequest(NameUndefined, OrderNumber(Num(2)), CardsUndefined),
      ColumnRequest(NameUndefined, OrderNumber(Num(-1)), CardsUndefined),
      ColumnRequest(NameUndefined, OrderText, CardsUndefined),
      ColumnRequest(NameUndefined, OrderString(Half(9)), CardsNull),
      ColumnRequest(NameUndefined, OrderUndefined, CardsArray(<<>>)),
      ColumnRequest(NameUndefined, OrderUndefined,
                    CardsArray(<<CardOwnStatus, CardBare>>)),
      ColumnRequest(NameString(NameB), OrderNull, CardsArray(<<CardBare>>)),
      ColumnRequest(NameString(NameLowerA), OrderText, CardsUndefined) }

\* The :columnName of column update and delete, and delete's targetColumn.
ColumnParams == {ToDo, NameLowerA, NameB}
TargetInputs == {<<>>, NameA, NameB, InProgress}

BoardSignup == Signup(EmailA)

BoardCreateProject ==
    \E caller \in Registered, name \in {<<>>, ProjectName}, cols \in ProjectColumnInputs :
        CreateProject(caller, name, cols)

BoardUpdateProject ==
    \E caller \in Registered, body \in BoardBodies : UpdateProject(caller, body)

BoardCreateColumn ==
    \E caller \in Registered, req \in CreateColumnRequests :
        CreateColumn(caller, req.name, req.order, req.cards)

BoardUpdateColumn ==
    \E caller \in Registered, columnName \in ColumnParams, req \in UpdateColumnRequests :
        UpdateColumn(caller, columnName, req.name, req.order, req.cards)

BoardDeleteColumn ==
    \E caller \in Registered, columnName \in ColumnParams, targetColumn \in TargetInputs :
        DeleteColumn(caller, columnName, targetColumn)

NextBoard ==
    \/ BoardSignup
    \/ BoardCreateProject
    \/ ops < MaxBoardOps /\ BoardUpdateProject
    \/ ops < MaxBoardOps /\ BoardCreateColumn
    \/ ops < MaxBoardOps /\ BoardUpdateColumn
    \/ ops < MaxBoardOps /\ BoardDeleteColumn

SpecBoard == Init /\ [][NextBoard]_vars

----------------------------------------------------------------------------
(* Requests of the membership specifications *)

EmailPadB == <<" ">> \o EmailB
EmailMixedB == <<" ", "B", "@", "X", " ">>

SignupEmails == {EmailA, EmailB, EmailPadB}

EmailRequest(email, emails) == [email |-> email, emails |-> emails]
EmailsUndefined == [t |-> "undefined", v |-> <<>>]
EmailsArray(es) == [t |-> "array", v |-> es]

\* The bodies of invite and revoke.
EmailRequests ==
    { EmailRequest(EmailString(EmailB), EmailsUndefined),
      EmailRequest(EmailUndefined,
                   EmailsArray(<<EmailString(EmailMixedB), EmailString(EmailB),
                                 EmailString(EmailC)>>)),
      EmailRequest(EmailString(EmailB),
                   EmailsArray(<<EmailString(EmailA), EmailOther,
                                 EmailString(<<" ">>)>>)),
      EmailRequest(EmailUndefined, EmailsArray(<<EmailOther, EmailString(<<" ">>)>>)),
      EmailRequest(EmailOther, EmailsArray(<<EmailString(<<" ">>), EmailString(EmailB)>>)) }

MemberRow(user, role, addedBy) == [user |-> user, role |-> role, addedBy |-> addedBy]
InviteRow(email, invitedBy, status) ==
    [email |-> email, invitedBy |-> invitedBy, status |-> status]

\* Bodies of project update that carry owner, members or invites.
MemberBodies ==
    { [ColumnsBody(CardsUndefined) EXCEPT !.owner = [set |-> TRUE, v |-> "u2"]],
      [ColumnsBody(CardsUndefined) EXCEPT !.members = [set |-> TRUE, v |-> <<>>]],
      [ColumnsBody(CardsUndefined) EXCEPT
          !.members = [set |-> TRUE,
                       v |-> << MemberRow("u2", "owner", "u2"),
                                MemberRow("u1", "collaborator", "u2") >>]],
      [ColumnsBody(CardsUndefined) EXCEPT
          !.invites = [set |-> TRUE,
                       v |-> << InviteRow(EmailB, "u2", "pending"),
                                InviteRow(EmailB, "u2", "pending") >>]] }

MemberSignup == \E email \in SignupEmails : Signup(email)

MemberCreateProject ==
    \E caller \in Registered : CreateProject(caller, ProjectName, <<>>)

MemberInvite ==
    \E caller \in Registered, req \in EmailRequests :
        Invite(caller, req.email, req.emails)

MemberRevoke ==
    \E caller \in Registered, req \in EmailRequests :
        Revoke(caller, req.email, req.emails)

MemberAcceptInvite == \E caller \in Registered : AcceptInvite(caller)

MemberUpdateProject ==
    \E caller \in Registered, body \in MemberBodies : UpdateProject(caller, body)

\* Invite, accept-invite and revoke alone.
NextInvite ==
    \/ MemberSignup
    \/ MemberCreateProject
    \/ MemberInvite
    \/ MemberRevoke
    \/ MemberAcceptInvite

SpecInvite == Init /\ [][NextInvite]_vars

\* The same with project update.
NextMembers ==
    \/ MemberSignup
    \/ MemberCreateProject
    \/ ops < MaxMemberOps /\ MemberInvite
    \/ ops < MaxMemberOps /\ MemberRevoke
    \/ ops < MaxMemberOps /\ MemberAcceptInvite
    \/ ops < MaxMemberOps /\ MemberUpdateProject

SpecMembers == Init /\ [][NextMembers]_vars

----------------------------------------------------------------------------
(* Requests of the access specification: invite, accept-invite and revoke   *)
(* with the reads and the column routes                                     *)

AccessColumnRequests ==
    { ColumnRequest(<<>>, OrderUndefined, CardsUndefined),
      ColumnRequest(NameB, OrderUndefined, CardsNull),
      ColumnRequest(NameB, OrderUndefined, CardsUndefined) }

AccessUpdateRequests ==
    { ColumnRequest(NameUndefined, OrderUndefined, CardsUndefined),
      ColumnRequest(NameUndefined, OrderUndefined, CardsOther),
      ColumnRequest(NameString(NameB), OrderUndefined, CardsUndefined),
      ColumnRequest(NameString(NameC), OrderText, CardsArray(<<CardBare>>)),
      ColumnRequest(NameString(InProgress), OrderUndefined, CardsUndefined) }

AccessInvite ==
    \E caller \in Registered, email \in {EmailString(EmailB), EmailUndefined} :
        Invite(caller, email, EmailsUndefined)

AccessRevoke ==
    \E caller \in Registered :
        Revoke(caller, EmailString(EmailB), EmailsUndefined)

AccessGetProject == \E caller \in Registered : GetProject(caller)

AccessGetColumns == \E caller \in Registered : GetColumns(caller)

AccessGetColumn ==
    \E caller \in Registered, columnName \in {ToDo, NameB} :
        GetColumn(caller, columnName)

AccessCreateColumn ==
    \E caller \in Registered, req \in AccessColumnRequests :
        CreateColumn(caller, req.name, req.order, req.cards)

AccessUpdateColumn ==
    \E caller \in Registered, req \in AccessUpdateRequests :
        UpdateColumn(caller, ToDo, req.name, req.order, req.cards)

AccessDeleteColumn ==
    \E caller \in Registered : DeleteColumn(caller, InProgress, <<>>)

AccessUpdateProject ==
    \E caller \in Registered :
        UpdateProject(caller, [ColumnsBody(CardsUndefined) EXCEPT
                                  !.members = [set |-> TRUE, v |-> <<>>]])

NextAccess ==
    \/ \E email \in {EmailA, EmailB} : Signup(email)
    \/ MemberCreateProject
    \/ AccessInvite
    \/ AccessRevoke
    \/ MemberAcceptInvite
    \/ AccessGetProject
    \/ AccessGetColumns
    \/ AccessGetColumn
    \/ AccessCreateColumn
    \/ AccessUpdateColumn
    \/ AccessDeleteColumn
    \/ AccessUpdateProject

SpecAccess == Init /\ [][NextAccess]_vars

----------------------------------------------------------------------------
(* Requests of the race specification: column creates whose reads and       *)
(* writes interleave                                                        *)

RaceRequests ==
    { ColumnRequest(<<>>, OrderUndefined, CardsUndefined),
      ColumnRequest(NameLowerA, OrderUndefined, CardsUndefined),
      ColumnRequest(NameB, OrderUndefined, CardsUndefined),
      ColumnRequest(NameC, OrderNumber(Num(1)), CardsArray(<<CardBare>>)) }

RaceBegin ==
    \E r \in Requests, caller \in Registered, req \in RaceRequests :
        BeginCreateColumn(r, caller, req.name, req.order, req.cards)

RaceFinish == \E r \in Requests : FinishCreateColumn(r)

NextRace ==
    \/ BoardSignup
    \/ BoardCreateProject
    \/ RaceBegin
    \/ RaceFinish

SpecRace == Init /\ [][NextRace]_vars

----------------------------------------------------------------------------
(* Requests of the stale-access specification: column requests of a member *)
(* whose membership is revoked between their read and their write          *)

StaleInvite ==
    \E caller \in Registered : Invite(caller, EmailString(EmailB), EmailsUndefined)

StaleBeginCreate ==
    \E caller \in Registered :
        BeginCreateColumn("r1", caller, NameB, OrderUndefined, CardsUndefined)

StaleBeginUpdate ==
    \E caller \in Registered :
        BeginUpdateColumn("r2", caller, ToDo, NameString(NameC), OrderUndefined,
                          CardsUndefined)

StaleBeginDelete ==
    \E caller \in Registered :
        BeginDeleteColumn("r2", caller, InProgress, ToDo)

StaleFinishCreate == \E r \in Requests : FinishCreateColumn(r)
StaleFinishUpdate == \E r \in Requests : FinishUpdateColumn(r)
StaleFinishDelete == \E r \in Requests : FinishDeleteColumn(r)

NextStale ==
    \/ \E email \in {EmailA, EmailB} : Signup(email)
    \/ MemberCreateProject
    \/ StaleInvite
    \/ AccessRevoke
    \/ MemberAcceptInvite
    \/ StaleBeginCreate
    \/ StaleBeginUpdate
    \/ StaleBeginDelete
    \/ StaleFinishCreate
    \/ StaleFinishUpdate
    \/ StaleFinishDelete

SpecStale == Init /\ [][NextStale]_vars

----------------------------------------------------------------------------
(* Requests of the accept specification: accept-invite in two steps, with  *)
(* invite and revoke served in between                                     *)

AcceptBegin == \E caller \in Registered : BeginAcceptInvite("r1", caller)
AcceptFinish == FinishAcceptInvite("r1")

AcceptInviteRequests ==
    { EmailRequest(EmailString(EmailB), EmailsUndefined),
      EmailRequest(EmailUndefined,
                   EmailsArray(<<EmailString(EmailB), EmailString(EmailC)>>)) }

AcceptInviteSent ==
    \E caller \in Registered, req \in AcceptInviteRequests :
        Invite(caller, req.email, req.emails)

AcceptRevoke ==
    \E caller \in Registered, req \in AcceptInviteRequests :
        Revoke(caller, req.email, req.emails)

NextAccept ==
    \/ \E email \in {EmailA, EmailB, EmailC} : Signup(email)
    \/ MemberCreateProject
    \/ AcceptInviteSent
    \/ AcceptRevoke
    \/ AcceptBegin
    \/ AcceptFinish

SpecAccept == Init /\ [][NextAccept]_vars

----------------------------------------------------------------------------
(* Requests of the auth specification *)

PasswordP == <<"p">>
PasswordQ == <<"q">>

AuthSignupSendOtp == \E email \in AuthEmails : SignupSendOtp(email)

AuthSignupVerify ==
    \E email \in AuthEmails, otp \in OtpCodes : SignupVerify(email, otp)

AuthLoginSendOtp ==
    \E password \in {PasswordP, PasswordQ} : LoginSendOtp(EmailA, password)

AuthLoginVerify == \E otp \in OtpCodes : LoginVerify(EmailA, otp)

\* Tokens of the first two users, of every time of issue.
PresentedTokens == {tk \in SignedTokens : tk.userId \in {UserOrder[1], UserOrder[2]}}

AuthUpdateProfile ==
    \E token \in PresentedTokens : UpdateProfile(token, PasswordP)

AuthLogout == \E token \in PresentedTokens : Logout(token)

NextAuth ==
    \/ AuthSignupSendOtp
    \/ AuthSignupVerify
    \/ AuthLoginSendOtp
    \/ AuthLoginVerify
    \/ AuthUpdateProfile
    \/ AuthLogout
    \/ Tick
    \/ ExpireOtp

SpecAuth == Init /\ [][NextAuth]_vars

----------------------------------------------------------------------------
(* Requests of the specification of concurrent login verifications *)

OtpSignupSendOtp == SignupSendOtp(EmailA)

OtpSignupVerify == \E otp \in OtpCodes : SignupVerify(EmailA, otp)

OtpUpdateProfile ==
    \E token \in {tk \in SignedTokens : tk.userId = UserOrder[1]} :
        UpdateProfile(token, PasswordP)

OtpLoginSendOtp == LoginSendOtp(EmailA, PasswordP)

OtpBeginLoginVerify ==
    \E r \in Requests, otp \in OtpCodes : BeginLoginVerify(r, EmailA, otp)

OtpFinishLoginVerify == \E r \in Requests : FinishLoginVerify(r)

NextOtp ==
    \/ OtpSignupSendOtp
    \/ OtpSignupVerify
    \/ OtpUpdateProfile
    \/ OtpLoginSendOtp
    \/ OtpBeginLoginVerify
    \/ OtpFinishLoginVerify
    \/ Tick
    \/ ExpireOtp

SpecOtp == Init /\ [][NextOtp]_vars

----------------------------------------------------------------------------
(* Properties of the board *)

ColumnSucceeded ==
    \/ last.op = "createColumn" /\ last.status = 201
    \/ last.op \in {"updateColumn", "deleteColumn"} /\ last.status = 200

RECURSIVE SumCards(_)
SumCards(cols) ==
    IF cols = <<>> THEN 0 ELSE Len(Head(cols).cards) + SumCards(Tail(cols))

FoldedName(col) == ToLowerCase(Trim(col.name))

\* C1: in every persisted project state every card's status equals the name
\* of the column that contains it.
C1_StatusMirrorsColumn ==
    \A i \in 1..Len(columns) :
        \A j \in 1..Len(columns[i].cards) :
            columns[i].cards[j].status = columns[i].name

\* C2: in every persisted project state no two columns have names that are
\* equal after trimming and lower-casing.
C2_UniqueColumnNames ==
    \A i, j \in 1..Len(columns) :
        i # j => FoldedName(columns[i]) # FoldedName(columns[j])

\* C3: after every successful column create, column update or column delete
\* the persisted order values are 1..N, the column at position i having
\* order i.
C3_DenseOrderAfterColumnOp ==
    ColumnSucceeded =>
        \A i \in 1..Len(columns) : columns[i].order = Num(i)

\* C3 witness: a column operation succeeded on the board that project create
\* or update persisted with the duplicate orders 3, 3 (the only board with
\* the two columns A and a).
C3_Witness ==
    /\ ColumnSucceeded
    /\ Len(columns) >= 2
    /\ {NameA, NameLowerA} \subseteq {columns[i].name : i \in 1..Len(columns)}

\* C4: column create, rename, reorder and delete never lose a card: a
\* successful create adds exactly the cards of the new column to the total,
\* and a successful update without a cards array or a successful delete
\* leaves the total unchanged.
C4_NoCardLost ==
    [][ /\ (last'.op = "createColumn" /\ last'.status = 201)
            => SumCards(columns') = SumCards(columns) + last'.nCards
        /\ (last'.op = "updateColumn" /\ last'.status = 200 /\ ~last'.hasCards)
            => SumCards(columns') = SumCards(columns)
        /\ (last'.op = "deleteColumn" /\ last'.status = 200)
            => SumCards(columns') = SumCards(columns) ]_vars

\* C4 witness: a delete that moved two cards into a column that already held
\* one succeeded.
C4_Witness ==
    /\ last.op = "deleteColumn" /\ last.status = 200 /\ last.nCards = 2
    /\ \E i \in 1..Len(columns) : Len(columns[i].cards) >= 3

----------------------------------------------------------------------------
(* Properties of members and invites *)

PendingOf(invs, email) ==
    {i \in 1..Len(invs) : invs[i].email = email /\ invs[i].status = "pending"}

InvitesOf(invs, email) == {i \in 1..Len(invs) : invs[i].email = email}

OwnerRows(mems) == {i \in 1..Len(mems) : mems[i].role = "owner"}

\* C5: after any sequence of invite, accept-invite and revoke the invites
\* hold at most one pending invite for any email.
C5_OnePendingPerEmail ==
    \A i, j \in 1..Len(invites) :
        (invites[i].status = "pending" /\ invites[j].status = "pending"
            /\ invites[i].email = invites[j].email) => i = j

\* C5 witness: an invite request found its email already invited, and the
\* pending invite is there.
C5_Witness ==
    /\ last.op = "invite" /\ last.status = 200
    /\ last.result.alreadyInvited # <<>>
    /\ PendingOf(invites, last.result.alreadyInvited[1]) # {}

\* C6: in every project state exactly one member has role owner, and that
\* member's user is the project's owner.
C6_OneOwnerRow ==
    created =>
        /\ Cardinality(OwnerRows(members)) = 1
        /\ \A i \in OwnerRows(members) : members[i].user = owner

\* C7: a project's owner field never changes after the project is created.
C7_OwnerImmutable == [][created => owner' = owner]_vars

\* What accept-invite may change for its caller: the caller's own member row
\* added at the end, pending invites of the caller's email accepted.
AcceptOnlyOwn(caller) ==
    /\ \/ members' = members
       \/ /\ Len(members') = Len(members) + 1
          /\ SubSeq(members', 1, Len(members)) = members
          /\ members'[Len(members')].user = caller
    /\ Len(invites') = Len(invites)
    /\ \A i \in 1..Len(invites) :
          \/ invites'[i] = invites[i]
          \/ /\ invites[i].email = ToLowerCase(Trim(accounts[caller]))
             /\ invites[i].status = "pending"
             /\ invites'[i] = [invites[i] EXCEPT !.status = "accepted"]

\* C8: a request by a caller who is not the owner leaves members and invites
\* unchanged, but for accept-invite, which may add the caller and accept the
\* caller's own invite; invite and revoke by a collaborator answer 403.
C8_OwnerOnlyMembership ==
    [][ (created /\ last'.op # "signup" /\ last'.caller # owner) =>
            /\ IF last'.op = "acceptInvite"
               THEN AcceptOnlyOwn(last'.caller)
               ELSE members' = members /\ invites' = invites
            /\ (last'.op \in {"invite", "revoke"} /\ last'.emails # <<>>
                  /\ isProjectMember(last'.caller))
                => last'.status = 403 ]_vars

\* A revoke or invite request that reached the loop over its emails: valid
\* emails, the caller the owner of the project.
Processed(l, op) ==
    /\ l.op = op
    /\ l.emails # <<>>
    /\ created
    /\ owner = l.caller

C11_AlreadyInvited ==
    [][ Processed(last', "invite") =>
          \A k \in 1..Len(last'.emails) :
            LET email == last'.emails[k]
            IN  (userByEmail(email) = NoUser /\ PendingOf(invites, email) # {}) =>
                  /\ last'.status = 200
                  /\ email \in Range(last'.result.alreadyInvited)
                  /\ email \notin Range(last'.result.invitationsSent)
                  /\ Cardinality(InvitesOf(invites', email))
                        = Cardinality(InvitesOf(invites, email)) ]_vars

\* C11 witness: one invite request sent an invitation to one email and found
\* another email, which has no account, already invited; that email still has
\* its single invite record.
C11_Witness ==
    /\ Processed(last, "invite") /\ last.status = 200
    /\ last.result.invitationsSent # <<>>
    /\ \E k \in 1..Len(last.result.alreadyInvited) :
          /\ userByEmail(last.result.alreadyInvited[k]) = NoUser
          /\ Cardinality(InvitesOf(invites, last.result.alreadyInvited[k])) = 1

\* What accept-invite by caller does when own is the set of the pending
\* invites that are the caller's: with one, 200, that invite (the first)
\* accepted and the caller a collaborator with one member row; with none, 404
\* and nothing changed.
AcceptOutcome(caller, own) ==
    IF created /\ own # {}
    THEN /\ last'.status = 200
         /\ \E i \in own : invites' = [invites EXCEPT ![i].status = "accepted"]
         /\ members' =
              IF isProjectMember(caller) THEN members
              ELSE Append(members,
                          [user |-> caller, role |-> "collaborator",
                           addedBy |-> members'[Len(members')].addedBy])
    ELSE /\ last'.status = 404
         /\ members' = members
         /\ invites' = invites

\* C12: accept-invite succeeds only when the project holds a pending invite
\* whose email equals the caller's own account email: it then marks that
\* invite accepted and makes the caller a collaborator if not already a
\* member; with no such invite it answers 404 and changes nothing.
C12_AcceptOwnInviteOnly ==
    [][ last'.op = "acceptInvite" =>
          AcceptOutcome(last'.caller,
                        PendingOf(invites, accounts[last'.caller])) ]_vars

\* The same with the caller's account email trimmed and lower-cased, as the
\* route compares it.
AcceptNormalisedEmail ==
    [][ last'.op = "acceptInvite" =>
          AcceptOutcome(last'.caller,
                        PendingOf(invites,
                                  ToLowerCase(Trim(accounts[last'.caller])))) ]_vars

\* C13: an invite record whose status is accepted or cancelled never changes
\* again under invite, accept-invite or revoke, and an invite for an email
\* with no account and no pending invite appends a new pending record.
C13_TerminalInviteStatus ==
    [][ last'.op \in {"invite", "acceptInvite", "revoke"} =>
          /\ Len(invites') >= Len(invites)
          /\ \A i \in 1..Len(invites) :
                invites[i].status \in {"accepted", "cancelled"}
                    => invites'[i] = invites[i]
          /\ Processed(last', "invite") =>
                \A k \in 1..Len(last'.emails) :
                  LET email == last'.emails[k]
                  IN  (userByEmail(email) = NoUser /\ PendingOf(invites, email) = {}) =>
                        /\ email \in Range(last'.result.invitationsSent)
                        /\ \E j \in (Len(invites) + 1)..Len(invites') :
                              invites'[j] = [email |-> email,
                                             invitedBy |-> last'.caller,
                                             status |-> "pending"] ]_vars

\* C13 witness: an invite created a pending record for an email that already
\* has an accepted or a cancelled record.
C13_Witness ==
    /\ Processed(last, "invite") /\ last.status = 200
    /\ \E k \in 1..Len(last.result.invitationsSent) :
          LET email == last.result.invitationsSent[k]
          IN  /\ PendingOf(invites, email) # {}
              /\ \E i \in InvitesOf(invites, email) :
                    invites[i].status \in {"accepted", "cancelled"}

\* C14: a revoke batch in which no email leads to a member removal or an
\* invite cancellation answers 404 and leaves members and invites unchanged.
C14_RevokeNothing ==
    [][ (Processed(last', "revoke")
            /\ last'.result.membersRemoved = <<>>
            /\ last'.result.invitesCancelled = <<>>) =>
          /\ last'.status = 404
          /\ members' = members
          /\ invites' = invites ]_vars

\* C14 witness: a revoke by the owner found none of its emails and answered
\* 404.
C14_Witness ==
    /\ Processed(last, "revoke") /\ last.status = 404
    /\ last.result.notFound # <<>>
    /\ last.result.membersRemoved = <<>>
    /\ last.result.invitesCancelled = <<>>

\* C15: no user appears more than once in members after any sequence of
\* project create, invite, accept-invite and revoke.
C15_UniqueMembers ==
    \A i, j \in 1..Len(members) : members[i].user = members[j].user => i = j

\* C15 witness: an accept-invite succeeded for a caller whose email holds two
\* accepted invites, the second of them accepted when the caller was a member
\* already; the caller has one member row.
C15_Witness ==
    /\ last.op = "acceptInvite" /\ last.status = 200
    /\ Cardinality({i \in InvitesOf(invites, ToLowerCase(Trim(accounts[last.caller]))) :
                        invites[i].status = "accepted"}) = 2
    /\ Cardinality({i \in 1..Len(members) : members[i].user = last.caller}) = 1

----------------------------------------------------------------------------
(* Properties of the normaliser, read off the two routes that apply it to  *)
(* a client's column list: project create (enforceDefaultCard true) and    *)
(* project update (enforceDefaultCard false)                               *)

\* The last request was a project create, or a project update with a columns
\* array, and succeeded: columns is what normalizeColumns returned for
\* last.cols.v.
NormalizedByCreate == last.op = "createProject" /\ last.status = 201
NormalizedByUpdate ==
    last.op = "updateProject" /\ last.status = 200 /\ IsArray(last.cols)

\* The default board, To Do holding one card titled Task 1 iff withCard.
IsDefaultBoard(cols, withCard) ==
    /\ Len(cols) = 4
    /\ [i \in 1..4 |-> cols[i].name] = <<ToDo, InProgress, InReview, Done>>
    /\ \A i \in 1..4 : cols[i].order = Num(i)
    /\ \A i \in 2..4 : cols[i].cards = <<>>
    /\ IF withCard
       THEN Len(cols[1].cards) = 1 /\ cols[1].cards[1].title = Task1
       ELSE cols[1].cards = <<>>

\* C16: normalizeColumns of an empty list yields To Do, In Progress, In
\* Review, Done with orders 1..4; with enforceDefaultCard true only To Do
\* holds a card (Task 1), with enforceDefaultCard false no column holds one.
C16_DefaultBoard ==
    /\ (NormalizedByCreate /\ last.cols.v = <<>>) => IsDefaultBoard(columns, TRUE)
    /\ (NormalizedByUpdate /\ last.cols.v = <<>>) => IsDefaultBoard(columns, FALSE)

\* C17: whatever orders the input columns carry, the list normalizeColumns
\* returns has order i at position i.
C17_NormalizedOrders ==
    (NormalizedByCreate \/ NormalizedByUpdate) =>
        \A i \in 1..Len(columns) : columns[i].order = Num(i)

\* normalizeColumns applied to the persisted columns.
Renormalized(f) ==
    normalizeColumns([i \in 1..Len(columns) |-> Loose(columns[i])], f)

\* C18: normalizeColumns is idempotent for a fixed flag, and re-normalising
\* the board a column update persisted yields the same board.
C18_Idempotent ==
    /\ NormalizedByCreate => Renormalized(TRUE) = columns
    /\ NormalizedByUpdate => Renormalized(FALSE) = columns
    /\ (last.op = "updateColumn" /\ last.status = 200) => Renormalized(FALSE) = columns

\* Whether the cards of an input column resolve to no card.
NoCardsGiven(col) == ~IsArray(col.cards) \/ col.cards.v = <<>>

\* Whether the merged (fallback, then input) configuration of the input
\* column at position i asks for a default card: the input's own defaultCard
\* if it has one, else the fallback's, which only position 1 (To Do) has.
WantsDefaultCard(col, i) ==
    \/ col.defaultCard = "true"
    \/ col.defaultCard = "absent" /\ i = 1

IsDefaultCardOf(cards, column) ==
    /\ Len(cards) = 1
    /\ cards[1].title = Task1
    /\ cards[1].status = column.name

\* C19 as stated: for a non-empty input list a column at any position whose
\* card list resolves to empty gets exactly one default card (status the
\* column's name) when enforceDefaultCard is true, zero cards when false.
C19_DefaultCardAnyPosition ==
    /\ (NormalizedByCreate /\ last.cols.v # <<>>) =>
          \A i \in 1..Len(columns) :
              NoCardsGiven(last.cols.v[i]) => IsDefaultCardOf(columns[i].cards, columns[i])
    /\ (NormalizedByUpdate /\ last.cols.v # <<>>) =>
          \A i \in 1..Len(columns) :
              NoCardsGiven(last.cols.v[i]) => columns[i].cards = <<>>

\* C19 amended: such a column gets exactly one default card when
\* enforceDefaultCard is true and its merged configuration asks for one, and
\* zero cards otherwise.
C19_DefaultCardWhenConfigured ==
    /\ (NormalizedByCreate /\ last.cols.v # <<>>) =>
          \A i \in 1..Len(columns) :
              NoCardsGiven(last.cols.v[i]) =>
                  IF WantsDefaultCard(last.cols.v[i], i)
                  THEN IsDefaultCardOf(columns[i].cards, columns[i])
                  ELSE columns[i].cards = <<>>
    /\ (NormalizedByUpdate /\ last.cols.v # <<>>) =>
          \A i \in 1..Len(columns) :
              NoCardsGiven(last.cols.v[i]) => columns[i].cards = <<>>

\* C19 witness: project create normalised a list whose second column came
\* without cards and without a defaultCard of its own, and got none.
C19_Witness ==
    /\ NormalizedByCreate
    /\ Len(last.cols.v) >= 2
    /\ NoCardsGiven(last.cols.v[2])
    /\ last.cols.v[2].defaultCard = "absent"
    /\ columns[2].cards = <<>>

----------------------------------------------------------------------------
(* Properties of column rename *)

NameCards(col) == [name |-> col.name, cards |-> col.cards]

\* The columns but the one at position i, as name and cards.
Others(cols, i) ==
    [j \in 1..(Len(cols) - 1) |-> NameCards(cols[IF j < i THEN j ELSE j + 1])]

SameBag(s1, s2) ==
    /\ Len(s1) = Len(s2)
    /\ \A x \in Range(s1) \cup Range(s2) :
          Cardinality({j \in 1..Len(s1) : s1[j] = x})
              = Cardinality({j \in 1..Len(s2) : s2[j] = x})

Fold(s) == ToLowerCase(Trim(s))

\* The request of the step is a column update with a name, by a caller with
\* access, for a column the board has.
RenameRequested ==
    /\ last'.op = "updateColumn"
    /\ last'.name.t = "string"
    /\ HasAccess(last'.caller)
    /\ \E i \in 1..Len(columns) : FoldedName(columns[i]) = Fold(last'.columnName)

\* The new name is the folded name of a column other than one the request
\* names.
Collides ==
    \E i, j \in 1..Len(columns) :
        /\ i # j
        /\ FoldedName(columns[i]) = Fold(last'.columnName)
        /\ FoldedName(columns[j]) = Fold(last'.name.s)

\* C20: a successful column rename sets the status of every card of the
\* column to the new name and changes no card of another column; an empty new
\* name answers 400, a colliding one 409, and the column's own name in
\* another letter case is accepted.
C20_RenameRewritesStatus ==
    [][ RenameRequested =>
          /\ Trim(last'.name.s) = <<>> =>
                last'.status = 400 /\ columns' = columns
          /\ (Trim(last'.name.s) # <<>> /\ Collides) =>
                last'.status = 409 /\ columns' = columns
          /\ (Trim(last'.name.s) # <<>> /\ ~Collides) => last'.status \in {200, 400}
          /\ (last'.status = 200 /\ ~last'.hasCards) =>
                \E i \in 1..Len(columns), k \in 1..Len(columns') :
                    /\ FoldedName(columns[i]) = Fold(last'.columnName)
                    /\ columns'[k].name = Trim(last'.name.s)
                    /\ columns'[k].cards =
                          [c \in 1..Len(columns[i].cards) |->
                              [columns[i].cards[c] EXCEPT !.status = Trim(last'.name.s)]]
                    /\ SameBag(Others(columns', k), Others(columns, i)) ]_vars

\* C20 witness: a column holding a card was renamed to its own name in
\* another letter case, next to a second column.
C20_Witness ==
    /\ last.op = "updateColumn" /\ last.status = 200
    /\ last.name.t = "string" /\ ~last.hasCards
    /\ Fold(last.name.s) = Fold(last.columnName)
    /\ Len(columns) >= 2
    /\ \E k \in 1..Len(columns) :
          /\ columns[k].name = Trim(last.name.s)
          /\ columns[k].cards # <<>>
          /\ \A c \in 1..Len(columns[k].cards) :
                columns[k].cards[c].status = columns[k].name

----------------------------------------------------------------------------
(* Properties of column delete and column create *)

\* The positions of the columns a name designates.
Named(cols, name) == {i \in 1..Len(cols) : FoldedName(cols[i]) = Fold(name)}

\* How many columns of cols, those at the positions in except aside, have
\* the name and cards x.
CountIn(cols, except, x) ==
    Cardinality({j \in (1..Len(cols)) \ except : NameCards(cols[j]) = x})

\* cols1 and cols2 hold the same columns (name and cards), the positions in
\* except1 and except2 aside.
SameColumnsBut(cols1, except1, cols2, except2) ==
    /\ \A j \in (1..Len(cols1)) \ except1 :
          CountIn(cols1, except1, NameCards(cols1[j]))
              = CountIn(cols2, except2, NameCards(cols1[j]))
    /\ \A j \in (1..Len(cols2)) \ except2 :
          CountIn(cols1, except1, NameCards(cols2[j]))
              = CountIn(cols2, except2, NameCards(cols2[j]))

\* The request of the step is a column delete by a caller with access for a
\* name that designates columns, all of them holding cards.
DeleteOfNonEmpty ==
    /\ last'.op = "deleteColumn"
    /\ HasAccess(last'.caller)
    /\ Named(columns, last'.columnName) # {}
    /\ \A i \in Named(columns, last'.columnName) : columns[i].cards # <<>>

\* The positions of the columns that remain and that targetColumn designates.
Destinations ==
    Named(columns, last'.targetColumn) \ Named(columns, last'.columnName)

\* C21: deleting a column that holds k >= 1 cards without a targetColumn
\* answers 400 and leaves the columns unchanged; with a targetColumn naming a
\* remaining column it removes the column and appends its k cards, each with
\* the destination's name as status, after the destination's cards.
C21_DeleteMigratesCards ==
    [][ DeleteOfNonEmpty =>
          /\ Trim(last'.targetColumn) = <<>> =>
                last'.status = 400 /\ columns' = columns
          /\ Destinations # {} =>
                /\ last'.status = 200
                /\ Len(columns') = Len(columns) - 1
                /\ \E i \in Named(columns, last'.columnName), d \in Destinations,
                      k \in 1..Len(columns') :
                      /\ last'.nCards = Len(columns[i].cards)
                      /\ columns'[k].name = columns[d].name
                      /\ Len(columns'[k].cards)
                            = Len(columns[d].cards) + Len(columns[i].cards)
                      /\ columns'[k].cards =
                            columns[d].cards \o
                            [c \in 1..Len(columns[i].cards) |->
                                [columns[i].cards[c] EXCEPT !.status = columns[d].name]]
                      /\ SameColumnsBut(columns', {k}, columns, {i, d}) ]_vars

\* C21 witness: a delete moved a card whose status was not the destination's
\* name behind the cards the destination held.
C21_Witness ==
    /\ last.op = "deleteColumn" /\ last.status = 200 /\ last.nCards >= 1
    /\ Fold(last.targetColumn) # Fold(last.columnName)
    /\ \E k \in Named(columns, last.targetColumn) :
          /\ Len(columns[k].cards) > last.nCards
          /\ \A c \in 1..Len(columns[k].cards) :
                columns[k].cards[c].status = columns[k].name
          /\ columns[k].cards[Len(columns[k].cards)].title = Scrum1

\* C22: deleting a column that holds cards with a targetColumn that is not
\* among the remaining columns (the deleted column's own name included)
\* answers 404 and leaves the columns unchanged.
C22_MissingTargetNotFound ==
    [][ (DeleteOfNonEmpty /\ Trim(last'.targetColumn) # <<>> /\ Destinations = {}) =>
          last'.status = 404 /\ columns' = columns ]_vars

\* C23: creating a column whose trimmed name equals, case-insensitively, the
\* name of a column of the project answers 409 and leaves the columns
\* unchanged.
C23_CreateDuplicateConflict ==
    [][ ( /\ last'.op = "createColumn"
          /\ HasAccess(last'.caller)
          /\ last'.cards.t \in {"undefined", "array"}
          /\ Named(columns, last'.name.s) # {} ) =>
          last'.status = 409 /\ columns' = columns ]_vars

\* C23 witness: a create was answered 409 for a name that no column bears
\* letter for letter.
C23_Witness ==
    /\ last.op = "createColumn" /\ last.status = 409
    /\ Named(columns, last.name.s) # {}
    /\ \A i \in 1..Len(columns) : columns[i].name # last.name.s

\* The columns as name and cards.
Shape(cols) == [i \in 1..Len(cols) |-> NameCards(cols[i])]

\* Whether an order field holds a number or a numeric string, and its floor.
IsNumeric(o) == o.t \in {"number", "string"} /\ o.numeric

\* C24: on column create into a board of N columns the insertion index lies
\* in [0, N] for every order; an order k >= 1 puts the column at position
\* min(floor(k), N + 1), an absent, non-numeric, zero or negative order at
\* position N + 1; in every case, 0 < order < 1 included, the existing
\* columns keep their relative order and the response's column is the new
\* one.
C24_InsertionIndex ==
    [][ (last'.op = "createColumn" /\ last'.status = 201) =>
          LET N == Len(columns)
              order == last'.order
              positive == IsNumeric(order) /\ order.n > 0
              position == IF positive THEN Min(Floor(order.n), N + 1) ELSE N + 1
          IN  /\ last'.insertionIndex \in 0..N
              /\ Len(columns') = N + 1
              /\ (~positive \/ order.n >= Num(1)) =>
                    /\ columns'[position].name = Trim(last'.name.s)
                    /\ RemoveAt(Shape(columns'), position - 1)
                          = Shape(sanitizeColumns(columns, FALSE))
              /\ \E p \in 1..(N + 1) :
                    /\ columns'[p].name = Trim(last'.name.s)
                    /\ RemoveAt(Shape(columns'), p - 1)
                          = Shape(sanitizeColumns(columns, FALSE))
              /\ Len(last'.column) = 1
              /\ last'.column[1].name = Trim(last'.name.s) ]_vars

\* The request of the step is a column update that carries an order and no
\* name and no cards, by a caller with access, for a column the board has.
ReorderRequested ==
    /\ last'.op = "updateColumn"
    /\ HasAccess(last'.caller)
    /\ Named(columns, last'.columnName) # {}
    /\ last'.order.t \notin {"undefined", "null"}
    /\ last'.name.t = "undefined"
    /\ last'.cards.t \in {"undefined", "null"}

\* C25: a column update with a numeric order k on a board of N columns puts
\* the column at position max(1, min(floor(k), N)), keeps the relative order
\* of the other columns and the columns and cards the same; a non-numeric
\* order answers 400 and writes nothing.
C25_ReorderClamped ==
    [][ ReorderRequested =>
          IF IsNumeric(last'.order)
          THEN LET N == Len(columns)
                   position == Max(1, Min(Floor(last'.order.n), N))
                   sanitized == sanitizeColumns(columns, FALSE)
               IN  /\ last'.status = 200
                   /\ Len(columns') = N
                   /\ position \in Named(columns', last'.columnName)
                   /\ \E i \in Named(sanitized, last'.columnName) :
                         /\ NameCards(columns'[position]) = NameCards(sanitized[i])
                         /\ RemoveAt(Shape(columns'), position - 1)
                               = RemoveAt(Shape(sanitized), i - 1)
                   /\ SameColumnsBut(columns', {}, columns, {})
          ELSE last'.status = 400 /\ columns' = columns ]_vars

\* C25 witness: To Do, first on its board, was sent to an order beyond the
\* number of columns and is now the last of four or more.
C25_Witness ==
    /\ last.op = "updateColumn" /\ last.status = 200
    /\ last.name.t = "undefined" /\ ~last.hasCards
    /\ last.columnName = ToDo
    /\ IsNumeric(last.order) /\ last.order.n > Num(Len(columns))
    /\ Len(columns) >= 4
    /\ columns[Len(columns)].name = ToDo

\* What normalisation makes of a supplied card in a column of the given
\* name, dueDate aside.
SuppliedAs(card, supplied, columnName) ==
    /\ card.title = IF supplied.title # <<>> THEN supplied.title ELSE Scrum1
    /\ card.description = supplied.description
    /\ card.assignee = supplied.assignee
    /\ card.status = IF supplied.status # <<>> THEN supplied.status ELSE columnName

\* C26: a column update that carries a cards array replaces the column's
\* cards: the column then holds as many cards as were supplied, in the
\* supplied order, none of the former, and when the request also renames the
\* column, supplied cards without a status get the new name as status.
C26_CardsReplaced ==
    [][ (last'.op = "updateColumn" /\ last'.status = 200 /\ IsArray(last'.cards)) =>
          LET supplied == last'.cards.v
              newName == IF last'.name.t = "string" THEN Trim(last'.name.s)
                         ELSE last'.columnName
          IN  \E k \in Named(columns', newName) :
                /\ last'.name.t = "string" => columns'[k].name = Trim(last'.name.s)
                /\ Len(columns'[k].cards) = Len(supplied)
                /\ \A j \in 1..Len(supplied) :
                      SuppliedAs(columns'[k].cards[j], supplied[j], columns'[k].name)
                /\ \E i \in Named(columns, last'.columnName) :
                      SameColumnsBut(columns', {k}, columns, {i}) ]_vars

\* C26 witness: an update renamed To Do, which held a card, and supplied one
\* card without status; the column holds that card alone, with the new name
\* as status.
C26_Witness ==
    /\ last.op = "updateColumn" /\ last.status = 200
    /\ last.name.t = "string" /\ IsArray(last.cards) /\ Len(last.cards.v) = 1
    /\ last.cards.v[1].status = <<>>
    /\ last.columnName = ToDo
    /\ \E k \in Named(columns, last.name.s) :
          /\ Len(columns[k].cards) = 1
          /\ columns[k].cards[1].title = Scrum1
          /\ columns[k].cards[1].status = Trim(last.name.s)

\* C27: a column create, update or delete, an invite or a revoke answered
\* 400, 403, 404 or 409 leaves the project's columns, members and invites
\* as they were, a column update whose rename is accepted and whose order is
\* then refused included.
C27_RefusedRequestWritesNothing ==
    [][ ( /\ last'.op \in {"createColumn", "updateColumn", "deleteColumn",
                            "invite", "revoke"}
          /\ last'.status \in {400, 403, 404, 409} )
        => ( columns' = columns /\ members' = members /\ invites' = invites )
      ]_<<vars>>

\* C27 witness: an update by a caller with access named a column of the
\* board, a new name no other column bears and cards, and was answered 400
\* for its order.
C27_Witness ==
    /\ last.op = "updateColumn" /\ last.status = 400
    /\ HasAccess(last.caller)
    /\ Named(columns, last.columnName) # {}
    /\ last.name.t = "string" /\ Trim(last.name.s) # <<>>
    /\ \A i \in 1..Len(columns) :
          FoldedName(columns[i]) # ToLowerCase(Trim(last.name.s))
    /\ IsArray(last.cards)
    /\ last.order.t = "string" /\ ~last.order.numeric

\* The entries of an invite or revoke request: those of the emails array,
\* then the email field when it is given (an empty string counting as not
\* given).
Entries(response) ==
    response.requested \o
    (IF response.email.t \notin {"undefined", "string"}
     THEN << response.email >> ELSE << >>)

Malformed(e) == e.t # "string" \/ Trim(e.s) = <<>>
WellFormed(e) == ~Malformed(e)

\* The emails a result accounts for.
AccountedFor(result) ==
    Range(result.addedMembers) \cup Range(result.invitationsSent)
    \cup Range(result.alreadyMembers) \cup Range(result.alreadyInvited)
    \cup Range(result.membersRemoved) \cup Range(result.invitesCancelled)
    \cup Range(result.notFound) \cup Range(result.notRemovable)

\* A request that carries a valid email and a malformed entry.
MixedBatch(response) ==
    /\ response.op \in {"invite", "revoke"}
    /\ \E i \in 1..Len(Entries(response)) : WellFormed(Entries(response)[i])
    /\ \E i \in 1..Len(Entries(response)) : Malformed(Entries(response)[i])

\* Mixed batches whose email field, when given, is a string.
MixedBatchOfStrings(response) ==
    MixedBatch(response) /\ response.email.t \in {"undefined", "string"}

\* What C28 says of a response to a mixed batch.
PartialSuccess(response) ==
    LET entries == Entries(response)
        valid == SelectSeq(entries, WellFormed)
    IN  /\ response.status # 400
        /\ isProjectOwner(response.caller) =>
              /\ response.result.invalidEmails = SelectSeq(entries, Malformed)
              /\ \A i \in 1..Len(valid) :
                    ToLowerCase(Trim(valid[i].s)) \in AccountedFor(response.result)
              /\ response.op = "invite" => response.status = 200
              /\ response.op = "revoke" =>
                    response.status
                      = IF /\ response.result.membersRemoved = <<>>
                           /\ response.result.invitesCancelled = <<>>
                        THEN 404 ELSE 200

\* C28: an invite or revoke that mixes at least one valid email with
\* malformed entries (values that are not strings, strings empty after
\* trimming) processes every valid email, lists every malformed entry under
\* invalidEmails and answers by the valid entries only: it is never refused
\* for the malformed ones.
C28_MalformedEntriesListed ==
    [][ MixedBatch(last') => PartialSuccess(last') ]_vars

\* The same for the requests whose email field is a string or absent; this
\* much the handlers do.
MalformedArrayEntriesListed ==
    [][ MixedBatchOfStrings(last') => PartialSuccess(last') ]_vars

\* The user is the owner of the project or listed in its members.
OwnerOrMember(userId) ==
    created /\ (owner = userId \/ \E i \in 1..Len(members) : members[i].user = userId)

ReadOps == {"getProject", "getColumns", "getColumn"}
ColumnMutations == {"createColumn", "updateColumn", "deleteColumn"}

\* A read answers 200 exactly when the caller is owner or member (and, for
\* one column, the board has it), and 404 otherwise.
ReadsByMembership ==
    last'.op \in ReadOps =>
        /\ last'.status \in {200, 404}
        /\ last'.status = 200 <=>
              /\ OwnerOrMember(last'.caller)
              /\ last'.op = "getColumn" => Named(columns, last'.columnName) # {}

\* The body of a column create or update that is refused whoever sends it.
InvalidBody(request) ==
    \/ /\ request.op = "createColumn"
       /\ \/ Trim(request.name.s) = <<>>
          \/ request.cards.t # "undefined" /\ ~IsArray(request.cards)
    \/ /\ request.op = "updateColumn"
       /\ \/ /\ request.name.t # "string"
             /\ request.order.t \in {"undefined", "null"}
             /\ ~IsArray(request.cards)
          \/ request.cards.t \notin {"undefined", "null"} /\ ~IsArray(request.cards)

\* C29 as stated: a read succeeds exactly when the caller is owner or
\* member, and every column mutation by a user who is neither answers 404.
C29_NonMemberAlways404 ==
    [][ /\ ReadsByMembership
        /\ (last'.op \in ColumnMutations /\ ~OwnerOrMember(last'.caller))
              => last'.status = 404 ]_vars

\* C29: a read succeeds exactly when the caller is the owner or a listed
\* member at the time of the request and answers 404 otherwise; a column
\* mutation by a user who is neither, a member removed by a revoke included,
\* changes nothing and answers 404, or 400 when its body is invalid.
C29_AccessByMembership ==
    [][ /\ ReadsByMembership
        /\ (last'.op \in ColumnMutations /\ ~OwnerOrMember(last'.caller))
              => /\ columns' = columns
                 /\ IF InvalidBody(last') THEN last'.status = 400
                    ELSE last'.status = 404 ]_vars

\* C29 witness: a user whose invite was accepted is no longer among the
\* members and has a read answered 404.
C29_Witness ==
    /\ last.op \in ReadOps /\ last.status = 404
    /\ created /\ last.caller # owner
    /\ \A i \in 1..Len(members) : members[i].user # last.caller
    /\ \E i \in 1..Len(invites) :
          /\ invites[i].status = "accepted"
          /\ invites[i].email = ToLowerCase(Trim(accounts[last.caller]))

\* Both column-create requests read the columns before either answered, and
\* both were answered 201.
BothReadBeforeEitherWrote ==
    /\ \A r \in Requests : inflight[r].phase = "done" /\ inflight[r].status = 201
    /\ \A r, s \in Requests : inflight[r].readAt < inflight[s].doneAt
    /\ ToLowerCase(Trim(inflight["r1"].name)) # ToLowerCase(Trim(inflight["r2"].name))

\* The request that was answered last.
LastWriter ==
    CHOOSE r \in Requests : \A s \in Requests : inflight[s].doneAt <= inflight[r].doneAt

\* C30: when two column creates with different names both read the columns
\* before either writes, both are answered 201 and the persisted columns
\* hold the column of the one that wrote last and not that of the other:
\* they are the columns both read plus one.
C30_LostUpdate ==
    BothReadBeforeEitherWrote =>
        \A r \in Requests :
            /\ (Named(columns, inflight[r].name) # {}) <=> (r = LastWriter)
            /\ Len(columns) = Len(inflight[r].project) + 1

\* C30 witness: both requests read first and were answered 201, and the
\* column of the first writer is not among the persisted columns.
C30_Witness ==
    /\ BothReadBeforeEitherWrote
    /\ \E r \in Requests :
          /\ r # LastWriter
          /\ Named(columns, inflight[r].name) = {}
          /\ Named(columns, inflight[LastWriter].name) # {}

\* How many entries of the list equal the email.
Occurrences(list, email) == Cardinality({i \in 1..Len(list) : list[i] = email})

\* The distinct normalized valid emails of a request.
ValidEmails(response) ==
    { ToLowerCase(Trim(response.requested[i].s)) :
        i \in {j \in 1..Len(response.requested) : WellFormed(response.requested[j])} }

\* C35: in the result of a successful invite every distinct normalized
\* valid email of the batch appears in exactly one of addedMembers,
\* invitationsSent, alreadyMembers and alreadyInvited, once, and the member
\* rows plus invite records the request added are as many as addedMembers
\* and invitationsSent together.
C35_InviteResultPartition ==
    [][ (last'.op = "invite" /\ last'.status = 200) =>
          LET result == last'.result
              listed == result.addedMembers \o result.invitationsSent
                        \o result.alreadyMembers \o result.alreadyInvited
          IN  /\ \A e \in ValidEmails(last') : Occurrences(listed, e) = 1
              /\ Range(listed) = ValidEmails(last')
              /\ SubSeq(members', 1, Len(members)) = members
              /\ Len(invites') >= Len(invites)
              /\ (Len(members') - Len(members)) + (Len(invites') - Len(invites))
                    = Len(result.addedMembers) + Len(result.invitationsSent) ]_vars

\* C35 witness: an invite named an email more than once; an email went to
\* addedMembers and another to invitationsSent.
C35_Witness ==
    /\ last.op = "invite" /\ last.status = 200
    /\ Len(last.requested) > Cardinality(ValidEmails(last))
    /\ Len(last.result.addedMembers) >= 1
    /\ Len(last.result.invitationsSent) >= 1
    /\ Len(members) >= 2

MembershipOps == {"invite", "acceptInvite", "revoke"}

\* C37: column create, update and delete change the project's columns
\* only, not its owner, members or invites; invite, accept-invite and revoke
\* change members and invites only, not the columns or the owner.
C37_FrameOfWrites ==
    [][ /\ last'.op \in ColumnMutations =>
              (owner' = owner /\ members' = members /\ invites' = invites
               /\ created' = created)
        /\ last'.op \in MembershipOps =>
              (columns' = columns /\ owner' = owner /\ created' = created)
      ]_vars

\* C37 witness: a column was created on a project that has a member besides
\* the owner's row and an invite on record.
C37_Witness ==
    /\ last.op = "createColumn" /\ last.status = 201
    /\ Len(members) >= 2
    /\ Len(invites) >= 1

ProjectScopedOps ==
    ReadOps \cup ColumnMutations \cup {"updateProject", "invite", "revoke"}

\* The request is refused for what it carries, whoever sends it.
InvalidRequest(request) ==
    \/ InvalidBody(request)
    \/ request.op \in {"invite", "revoke"} /\ ValidEmails(request) = {}

\* C38 as stated: a caller who is neither owner nor member gets 404 from
\* every project-scoped read, column operation, project update, invite and
\* revoke, and the project is unchanged.
C38_OutsiderAlways404 ==
    [][ (last'.op \in ProjectScopedOps /\ ~OwnerOrMember(last'.caller)) =>
          /\ last'.status = 404
          /\ <<owner, columns, members, invites>>' = <<owner, columns, members, invites>>
      ]_vars

\* C38: a caller who is neither owner nor member gets 404 from every
\* project-scoped read, column operation, project update, invite and revoke
\* whose request is valid on its own, and 400 when it is not; never 403,
\* never a success, and the project is unchanged.
C38_OutsiderNeverServed ==
    [][ (last'.op \in ProjectScopedOps /\ ~OwnerOrMember(last'.caller)) =>
          /\ last'.status = IF InvalidRequest(last') THEN 400 ELSE 404
          /\ <<owner, columns, members, invites>>' = <<owner, columns, members, invites>>
      ]_vars

\* C38 witness: a registered user who is neither owner nor member of the
\* project sent an invite with a valid email and was answered 404.
C38_Witness ==
    /\ last.op = "invite" /\ last.status = 404
    /\ created /\ ~OwnerOrMember(last.caller)
    /\ ValidEmails(last) # {}

\* The step answers the request of slot r, which had read the project.
Answers(r) == inflight[r].phase = "read" /\ inflight'[r].phase = "done"

\* C33: a column create, update or delete whose caller is no longer owner
\* or member when the handler comes to write, having been one when it read,
\* leaves the persisted columns as they are and ends with an error
\* response.
C33_StaleWriterWritesNothing ==
    [][ \A r \in Requests :
          (Answers(r) /\ ~OwnerOrMember(inflight[r].caller)) =>
              /\ columns' = columns
              /\ inflight'[r].status >= 400
              /\ last'.status = inflight'[r].status ]_vars

\* C33 witness: a column update that would have renamed To Do was answered
\* 500: its caller, whose invite was accepted, was no longer among the
\* members when it wrote, and To Do is still on the board.
C33_Witness ==
    \E r \in Requests :
        /\ inflight[r].phase = "done" /\ inflight[r].route = "update"
        /\ inflight[r].status = 500
        /\ inflight[r].readAt > 0
        /\ ~OwnerOrMember(inflight[r].caller)
        /\ Named(columns, ToDo) # {}
        /\ Named(columns, NameC) = {}

\* The stored email of a user as accept-invite normalises it.
EmailOf(userId) == ToLowerCase(Trim(accounts[userId]))

\* C34: once a revoke has cancelled the pending invite for an email, the
\* invite stays cancelled and no accept-invite is answered 200 on it: an
\* accept-invite answered 200 turns an invite for the caller's email that
\* is pending at the time of the write into an accepted one, also when the
\* accept-invite had read the project before the revoke wrote.
C34_CancelledInviteUnusable ==
    [][ /\ \A i \in 1..Len(invites) :
              invites[i].status = "cancelled" =>
                  (Len(invites') >= i /\ invites'[i].status = "cancelled")
        /\ (last'.op = "acceptInvite" /\ last'.status = 200) =>
              \E i \in 1..Len(invites) :
                  /\ invites[i].email = EmailOf(last'.caller)
                  /\ invites[i].status = "pending"
                  /\ invites'[i].status = "accepted" ]_vars

----------------------------------------------------------------------------
(* Sessions and one-time passwords *)

VerifyOps == {"signupVerify", "loginVerify"}

\* The type of Otp record a verify handler looks up.
TypeOf(op) == IF op = "signupVerify" THEN "signup" ELSE "login"

\* The tokens of a user the middleware accepts.
AcceptedTokens(u) ==
    {tk \in {[userId |-> u, iat |-> i] : i \in 0..MaxTime} : authMiddleware(tk)}

\* A step in which a verify handler issued a token to user u.
IssuedTo(u) ==
    /\ ops' # ops
    /\ last'.op \in VerifyOps
    /\ last'.status = 200
    /\ last'.caller = u

\* C31: the middleware accepts at most one token per user.  A successful
\* signup/verify or login/verify leaves the token it issued as the only one
\* accepted for its user; a successful logout leaves none accepted; and no
\* other step makes a token accepted that was not accepted before it, so
\* every token issued earlier stays rejected (401) and after logout nothing
\* is accepted until the next successful verify.
C31_SingleSessionSlot ==
    [][ \A u \in UserIds :
          /\ Cardinality(AcceptedTokens(u)') <= 1
          /\ IssuedTo(u) => AcceptedTokens(u)' = {last'.token}
          /\ (ops' # ops /\ last'.op = "logout" /\ last'.status = 200
                 /\ last'.caller = u)
               => AcceptedTokens(u)' = {}
          /\ ~IssuedTo(u) => AcceptedTokens(u)' \subseteq AcceptedTokens(u)
          /\ (ops' # ops /\ last'.op \in {"logout", "updateProfile"}
                 /\ last'.token.userId = u /\ last'.token \notin AcceptedTokens(u))
               => last'.status = 401 ]_vars

\* A token issued earlier that jwt.verify still accepts is refused with 401 because a
\* later verify replaced it in the user's slot.
C31_Witness ==
    /\ last.op \in {"logout", "updateProfile"}
    /\ last.status = 401
    /\ last.token \in issued
    /\ now < last.token.iat + TokenLifetime
    /\ accounts[last.token.userId] # <<>>
    /\ tokens[last.token.userId] # NoToken
    /\ last.token.iat < tokens[last.token.userId].iat
    /\ AcceptedTokens(last.token.userId) = {tokens[last.token.userId]}

\* A verify request that passed the check of its body.
VerifyStep ==
    /\ ops' # ops
    /\ last'.op \in VerifyOps
    /\ last'.email.s # <<>>
    /\ last'.otp # <<>>

\* The Otp record a verify step looked up.
OtpRead == otps[<<last'.email.s, TypeOf(last'.op)>>]

\* C32: a verification made when the stored OTP's expiresAt has passed is
\* answered 400, issues no token and leaves no Otp record of that email and
\* type, whatever the code; and a verification that finds no Otp record is
\* answered 400 and issues no token.
C32_ExpiredOtpRefused ==
    [][ VerifyStep =>
          /\ (OtpRead # NoOtp /\ OtpRead.expiresAt < now)
               => /\ last'.status = 400
                  /\ tokens' = tokens
                  /\ accounts' = accounts
                  /\ otps'[<<last'.email.s, TypeOf(last'.op)>>] = NoOtp
          /\ OtpRead = NoOtp
               => /\ last'.status = 400
                  /\ tokens' = tokens
                  /\ accounts' = accounts
                  /\ otps' = otps ]_vars

\* The correct code was presented after the expiry and refused.
C32_Witness ==
    /\ last.op \in VerifyOps
    /\ last.status = 400
    /\ last.message = "OTP expired"
    /\ last.otp = last.code
    /\ otps[<<last.email.s, TypeOf(last.op)>>] = NoOtp

\* A step in which a verify handler answered 200.
VerifySucceeded ==
    /\ ops' # ops
    /\ last'.op \in VerifyOps
    /\ last'.status = 200

\* C36: an OTP is used once and by the verify route of its type only: a
\* verify handler answers 200 only when an OTP of its own type has been
\* sent to the email and no verification of that type has succeeded since,
\* so signup/verify never succeeds on a login OTP nor login/verify on a
\* signup OTP; and login/verify issues a token only for an email whose
\* password login/send-otp has accepted since the last successful
\* login/verify.
C36_OtpSingleUse ==
    [][ VerifySucceeded =>
          /\ <<last'.email.s, TypeOf(last'.op)>> \in otpSent
          /\ last'.op = "loginVerify" => last'.email.s \in passwordChecked ]_vars

====
